---- MODULE Spec2Model ----
(***************************************************************************)
(* Model of the per-user player-disambiguation conversation of            *)
(* src/src/soccer_agent.py: the LLM-driven SoccerAgent with its            *)
(* LangChainConversationManager sessions, and the rule-based               *)
(* PlayerSelectionFlow.                                                    *)
(*                                                                         *)
(* Text is a sequence of one-character strings so that strip(), lower(),   *)
(* int() and the substring test are computed, not assumed.                 *)
(* External collaborators (candidate matcher, Transfermarkt fetch, LLM)    *)
(* are nondeterministic inputs of the call that consumes them.             *)
(***************************************************************************)
EXTENDS Integers, Sequences, FiniteSets, TLC

VARIABLES
    user_sessions,  \* SoccerAgent.user_sessions: user id -> session
    last,           \* record of the latest SoccerAgent call (history)
    path,           \* per user: progress along the scripted example dialogue
    flow,           \* one PlayerSelectionFlow object
    flast,          \* record of the latest PlayerSelectionFlow call (history)
    manager,        \* one LangChainConversationManager object called directly
    mlast,          \* record of the latest direct manager call (history)
    heap,           \* the session objects constructed, when calls overlap
    store,          \* user_sessions as references into heap, when calls overlap
    threads,        \* the calls in flight: position and local variables of each
    slast           \* record of the latest WebScraper search call (history)

vars == <<user_sessions, last, path, flow, flast, manager, mlast,
          heap, store, threads, slast>>

(***************************************************************************)
(* Bounds                                                                  *)
(***************************************************************************)
\* longest candidate list the matcher returns
MaxResults == 2

(***************************************************************************)
(* ConversationState                                                       *)
(***************************************************************************)
SEARCHING == "searching"
SHOWING_RESULTS == "showing_results"
CONFIRMING_SELECTION == "confirming_selection"
COMPLETED == "completed"
ERROR == "error"

ConversationState ==
    {SEARCHING, SHOWING_RESULTS, CONFIRMING_SELECTION, COMPLETED, ERROR}

(***************************************************************************)
(* Text helpers: Python str.strip, str.lower, `in`, int()                  *)
(***************************************************************************)
\* The white-space characters that have no escape in a string of this
\* language, each written as the character itself between the quotes:
\* vertical tab U+000B, file separator U+001C, group separator U+001D,
\* record separator U+001E, unit separator U+001F, next line U+0085,
\* no-break space U+00A0, ogham space mark U+1680
Unescaped ==
    [VT |-> "", FS |-> "", GS |-> "", RS |-> "",
     US |-> "", NEL |-> "", NBSP |-> " ", OGHAM |-> " "]

\* the characters str.strip() and str.split() take for white space, those
\* for which str.isspace() holds: blank, tab, line feed, carriage return,
\* form feed and the characters above.  The remaining ones, the spaces
\* U+2000 to U+200A, U+2028, U+2029, U+202F, U+205F and U+3000, cannot be
\* written in a string of this language; no message below holds one.
Whitespace ==
    {" ", "\t", "\n", "\r", "\f"}
        \cup {Unescaped[name] : name \in DOMAIN Unescaped}

\* the letters of the texts that str.lower() changes, and below each of
\* them what it makes of it: A to Z, the Latin-1 capitals U+00C0 to U+00DE
\* and the Greek sigma U+03A3
UpperLower ==
    << <<
      "A", "B", "C", "D", "E", "F", "G", "H", "I", "J", "K", "L", "M", "N",
      "O", "P", "Q", "R", "S", "T", "U", "V", "W", "X", "Y", "Z", "À", "Á",
      "Â", "Ã", "Ä", "Å", "Æ", "Ç", "È", "É", "Ê", "Ë", "Ì", "Í", "Î", "Ï",
      "Ð", "Ñ", "Ò", "Ó", "Ô", "Õ", "Ö", "Ø", "Ù", "Ú", "Û", "Ü", "Ý", "Þ",
      "Σ"
    >>, <<
      "a", "b", "c", "d", "e", "f", "g", "h", "i", "j", "k", "l", "m", "n",
      "o", "p", "q", "r", "s", "t", "u", "v", "w", "x", "y", "z", "à", "á",
      "â", "ã", "ä", "å", "æ", "ç", "è", "é", "ê", "ë", "ì", "í", "î", "ï",
      "ð", "ñ", "ò", "ó", "ô", "õ", "ö", "ø", "ù", "ú", "û", "ü", "ý", "þ",
      "σ"
    >> >>

\* the decimal digits of the texts, by value: the ASCII digits and the
\* extended Arabic-Indic digits U+06F0 to U+06F9
DecimalDigits ==
    << <<"0", "1", "2", "3", "4", "5", "6", "7", "8", "9">>,
       <<"۰", "۱", "۲", "۳", "۴", "۵", "۶", "۷", "۸", "۹">> >>

Digits == {DecimalDigits[k][v] : k \in 1..2, v \in 1..10}

\* the letters with a case: those above and the lower-case letters without
\* an upper-case letter among them (sharp s, y with diaeresis, final sigma)
Cased ==
    {UpperLower[k][i] : k \in 1..2, i \in 1..57} \cup {"ß", "ÿ", "ς"}

\* the characters a text is made of.  Every conversion below is defined on
\* these characters and on no other: str.lower(), str.strip() and int() are
\* modelled for texts over this alphabet.  (The grave accent U+0060 is the
\* one printable ASCII character left out: a string of this language
\* cannot hold it.)
Alphabet ==
    Cased \cup Digits \cup Whitespace
        \cup {
               "!", "\"", "#", "$", "%", "&", "'", "(", ")", "*", "+", ",",
               "-", ".", "/", ":", ";", "<", "=", ">", "?", "@", "[", "\\",
               "]", "^", "_", "{", "|", "}", "~"
               }

\* str.lower() of one character, except for the sigma at the end of a word
\* (defined on the alphabet only)
LowerChar(c) ==
    [x \in {c} \cap Alphabet |->
        IF x \in Cased /\ \E i \in 1..57 : UpperLower[1][i] = x
        THEN UpperLower[2][CHOOSE i \in 1..57 : UpperLower[1][i] = x]
        ELSE x][c]

\* the sigma at place i ends a word: the nearest character before it that is
\* not case-ignorable is a cased letter, and the nearest one after it, if
\* any, is not.  str.lower() looks through the case-ignorable characters:
\* in the alphabet, the apostrophe, the full stop, the colon and the
\* circumflex.
FinalSigma(s, i) ==
    LET before == {j \in 1..(i - 1) : s[j] \notin {"'", ".", ":", "^"}}
        after == {j \in (i + 1)..Len(s) : s[j] \notin {"'", ".", ":", "^"}}
    IN  /\ before # {}
        /\ s[CHOOSE j \in before : \A k \in before : k <= j] \in Cased
        /\ \/ after = {}
           \/ s[CHOOSE j \in after : \A k \in after : j <= k] \notin Cased

\* str.lower()
Lower(s) ==
    [i \in 1..Len(s) |->
        IF s[i] = "Σ" /\ FinalSigma(s, i) THEN "ς" ELSE LowerChar(s[i])]

RECURSIVE LStrip(_)
LStrip(s) ==
    IF s = <<>> THEN <<>>
    ELSE IF Head(s) \in Whitespace THEN LStrip(Tail(s)) ELSE s

RECURSIVE RStrip(_)
RStrip(s) ==
    IF s = <<>> THEN <<>>
    ELSE IF s[Len(s)] \in Whitespace THEN RStrip(SubSeq(s, 1, Len(s) - 1))
    ELSE s

Strip(s) == RStrip(LStrip(s))

\* Python `sub in s`
Contains(sub, s) ==
    \E i \in 0..(Len(s) - Len(sub)) : SubSeq(s, i + 1, i + Len(sub)) = sub

\* the value of a decimal digit
DigitVal(c) ==
    CHOOSE v \in 0..9 : \E k \in 1..2 : DecimalDigits[k][v + 1] = c

\* the text after strip() and an optional sign
IntBody(s) ==
    LET t == Strip(s)
    IN  IF t # <<>> /\ t[1] \in {"+", "-"} THEN Tail(t) ELSE t

\* int(s) does not raise ValueError: optional sign, digits, single
\* underscores between digits, and no more than 4300 digits, leading zeros
\* counted and underscores not (sys.get_int_max_str_digits() of CPython 3.11;
\* the program never changes the limit)
IsInt(s) ==
    LET int(b) ==
            /\ b # <<>>
            /\ Cardinality({i \in 1..Len(b) : b[i] # "_"}) <= 4300
            /\ \A i \in 1..Len(b) :
                  [x \in {b[i]} \cap Alphabet |-> x \in Digits \cup {"_"}][b[i]]
            /\ b[1] \in Digits
            /\ b[Len(b)] \in Digits
            /\ \A i \in 1..(Len(b) - 1) : ~(b[i] = "_" /\ b[i + 1] = "_")
    IN  int(IntBody(s))

RECURSIVE DigitsValue(_, _)
DigitsValue(b, acc) ==
    IF b = <<>> THEN acc
    ELSE IF Head(b) = "_" THEN DigitsValue(Tail(b), acc)
    ELSE DigitsValue(Tail(b), 10 * acc + DigitVal(Head(b)))

\* the value of int(s) when IsInt(s)
IntValue(s) ==
    LET t == Strip(s)
        v == DigitsValue(IntBody(s), 0)
    IN  IF t[1] = "-" THEN 0 - v ELSE v

(***************************************************************************)
(* PlayerSearchResult and the candidates the matcher can return            *)
(***************************************************************************)
PlayerSearchResult(id, name, club, score) ==
    [player_id |-> id, player_name |-> name, club |-> club,
     confidence_score |-> score]

\* Python None for Optional[PlayerSearchResult]
NoPlayer == PlayerSearchResult("None", <<>>, "None", 0)

\* Python None (or any falsy value) for the player data
NoData == [player_id |-> "None", kind |-> "None"]

\* confidence scores are tenths: 1.0, 0.8, 0.6, 0.0 are 10, 8, 6, 0
P1 == PlayerSearchResult("p1", <<"A", "n", "a", " ", "B">>, "c1", 8)
P2 == PlayerSearchResult("p2", <<"A", "n", "a">>, "c2", 8)
P3 == PlayerSearchResult("p3", <<"Ö", "b">>, "c3", 6)

Players == {P1, P2, P3}

RECURSIVE SeqsUpTo(_, _)
SeqsUpTo(S, n) ==
    IF n = 0 THEN {<<>>}
    ELSE LET shorter == SeqsUpTo(S, n - 1)
         IN  shorter \cup {Append(q, x) : q \in shorter, x \in S}

\* _search_players sorts by confidence_score, highest first
(***************************************************************************)
(* WebScraper._search_players: the provider's players, scored against the  *)
(* query and sorted.  Scores are in tenths: 10, 8, 6, 0.                   *)
(***************************************************************************)
\* str.split(): the words of a text, as a set
Words(s) ==
    {SubSeq(s, p[1], p[2]) :
        p \in {q \in (1..Len(s)) \X (1..Len(s)) :
                  /\ q[1] <= q[2]
                  /\ \A k \in q[1]..q[2] : s[k] \notin Whitespace
                  /\ q[1] = 1 \/ s[q[1] - 1] \in Whitespace
                  /\ q[2] = Len(s) \/ s[q[2] + 1] \in Whitespace}}

_calculate_name_similarity(search_name, player_name) ==
    LET search_lower == Strip(Lower(search_name))
        player_lower == Strip(Lower(player_name))
    IN  IF search_lower = player_lower THEN 10
        ELSE IF \/ Contains(search_lower, player_lower)
                \/ Contains(player_lower, search_lower) THEN 8
        ELSE IF Words(search_lower) \cap Words(player_lower) # {} THEN 6
        ELSE 0

\* a place before the earlier elements of equal score: an unstable sort
insert_position_before_equals(sorted, x) ==
    Cardinality({i \in 1..Len(sorted) :
        sorted[i].confidence_score > x.confidence_score})

\* where list.sort(key=confidence_score, reverse=True) puts an element among
\* the elements before it: the sort is stable, also with reverse=True, so
\* behind those of greater or equal score
insert_position(sorted, x) ==
    Cardinality({i \in 1..Len(sorted) :
        sorted[i].confidence_score >= x.confidence_score})

\* results.sort(key=lambda x: x.confidence_score, reverse=True)
RECURSIVE sort_reverse(_)
sort_reverse(results) ==
    IF results = <<>> THEN <<>>
    ELSE LET n == Len(results)
             x == results[n]
             init == sort_reverse(SubSeq(results, 1, n - 1))
             k == insert_position(init, x)
         IN  SubSeq(init, 1, k) \o <<x>> \o SubSeq(init, k + 1, Len(init))

\* data: what the provider answered: [kind |-> "players", players |-> ...],
\* a body of another shape ("other"), or a failed request ("raise")
_search_players(player_name, data) ==
    IF data.kind = "players"
    THEN sort_reverse(
            [i \in 1..Len(data.players) |->
                PlayerSearchResult(
                    data.players[i].id, data.players[i].playerName,
                    data.players[i].club,
                    _calculate_name_similarity(player_name,
                                               data.players[i].name))])
    ELSE <<>>

search_players_with_selection(api_key, player_name, data) ==
    IF ~api_key THEN <<>> ELSE _search_players(player_name, data)

SortedByConfidence(r) ==
    \A i \in 1..(Len(r) - 1) :
        r[i].confidence_score >= r[i + 1].confidence_score

Distinct(r) == \A i, j \in 1..Len(r) : i # j => r[i] # r[j]

\* the lists search_players_with_selection can return
ResultLists ==
    {r \in SeqsUpTo(Players, MaxResults) : Distinct(r) /\ SortedByConfidence(r)}

\* outcome of web_scraper.search_players_with_selection: a list, or raised
MatcherOutcomes ==
    {[raised |-> FALSE, results |-> r] : r \in ResultLists}
        \cup {[raised |-> TRUE, results |-> <<>>]}

NoMatcher == [raised |-> FALSE, results |-> <<>>]

\* outcome of web_scraper.get_transfermarkt_data_by_id:
\*   "full"  the data dictionary,
\*   "error" the {'error': ..., 'player_id': ...} dictionary it returns
\*           without an API key and when a request of the fetch failed.
\* Both are truthy.  The function catches every exception and returns a
\* dictionary on every path, so the falsy value ("none") and the exception
\* ("raise") that _analyze_selected_player guards against (642-643, 677)
\* are not among its outcomes.
FetchOutcomes == {"full", "error"}

\* the messages users send in SHOWING_RESULTS, where the text is parsed
Msgs ==
    { <<"1">>, <<"2">>, <<" ", "3", " ">>, <<"0">>, <<"9">>, <<"-", "1">>,
      <<"\t", "1", "\n">>, <<Unescaped.VT, "1">>, <<"1", Unescaped.US>>,
      <<Unescaped.FS, "2", Unescaped.NBSP>>,
      <<"y", "e", "s">>, <<"n", "o">>,
      <<"a", "N">>, <<"\r", "b", "\f">>, <<Unescaped.GS, "b", Unescaped.NEL>>,
      <<"b">>, <<"z">>,
      <<>>, <<" ">>, <<"\t">>, <<Unescaped.RS, Unescaped.OGHAM>>,
      <<"ö">>, <<"۱">>, <<"۹", " ">> }

\* the messages users send in the other states, where the text only feeds
\* the LLM prompts and the matcher, whose answers are inputs of their own
QueryTexts == { <<"1">>, <<"y", "e", "s">>, <<"z">> }

(***************************************************************************)
(* LangChainConversationManager                                            *)
(***************************************************************************)
Session(st, res, sel, pd) ==
    [current_state |-> st, search_results |-> res,
     selected_player |-> sel, player_data |-> pd]

\* LangChainConversationManager.__init__
NewSession == Session(SEARCHING, <<>>, NoPlayer, NoData)

\* result of a handler: session after, text returned, external calls made
Out(s, resp, calls) == [s |-> s, resp |-> resp, calls |-> calls]

\* the context dictionaries the handlers pass to get_response
\*   {"error": ...}
ErrorContext ==
    [key |-> "error", player |-> NoPlayer, results |-> <<>>, numbered |-> FALSE]

\*   {"player": {...}}, or {"player": None} when player is NoPlayer
PlayerContext(player) ==
    [key |-> "player", player |-> player, results |-> <<>>, numbered |-> FALSE]

\*   {"results": [...]}; numbered: the entries carry the 'number' key
ResultsContext(results, numbered) ==
    [key |-> "results", player |-> NoPlayer, results |-> results,
     numbered |-> numbered]

\*   {}
EmptyContext ==
    [key |-> "none", player |-> NoPlayer, results |-> <<>>, numbered |-> FALSE]

\* _format_context: "text" when the context formats, "raise" when it raises:
\* player['player_name'] of None is a TypeError, result['number'] of an
\* entry without that key a KeyError
_format_context(context) ==
    IF context.key = "error" THEN "text"
    ELSE IF context.key = "player"
    THEN (IF context.player = NoPlayer THEN "raise" ELSE "text")
    ELSE IF context.key = "results"
    THEN (IF context.results # <<>> /\ ~context.numbered
          THEN "raise" ELSE "text")
    ELSE "text"

\* get_response: the LLM's text for the given kind of prompt; the fixed error
\* text when formatting the context raises (the LLM is then not asked) or the
\* LLM call fails; never raises.  An empty context is not formatted.
get_response(llm, kind, context) ==
    IF context # EmptyContext /\ _format_context(context) = "raise"
    THEN "llm_error"
    ELSE IF llm THEN kind ELSE "llm_error"

\* reset that only goes back to SEARCHING
reset_only_state(s) == [s EXCEPT !.current_state = SEARCHING]

\* reset that forgets `self.search_results = []`
reset_keeps_candidates(s) == Session(SEARCHING, s.search_results, NoPlayer, NoData)

\* reset that forgets `self.selected_player = None`
reset_keeps_selection(s) == Session(SEARCHING, <<>>, s.selected_player, NoData)

\* reset that forgets `self.player_data = None`
reset_keeps_player_data(s) == Session(SEARCHING, <<>>, NoPlayer, s.player_data)

\* LangChainConversationManager.reset
reset(s) == Session(SEARCHING, <<>>, NoPlayer, NoData)

\* handle_search_state without the `if not search_results` branch
handle_search_state_no_empty_check(s, search_results, llm) ==
    LET s1 == [s EXCEPT !.search_results = search_results]
    IN  IF Len(search_results) = 1
        THEN Out([s1 EXCEPT !.selected_player = search_results[1],
                            !.current_state = COMPLETED],
                 get_response(llm, "selected",
                              PlayerContext(search_results[1])), <<>>)
        ELSE Out([s1 EXCEPT !.current_state = SHOWING_RESULTS],
                 get_response(llm, "results_list",
                              ResultsContext(search_results, TRUE)), <<>>)

\* handle_search_state whose empty branch forgets to set ERROR
handle_search_state_no_error_state(s, search_results, llm) ==
    LET s1 == [s EXCEPT !.search_results = search_results]
    IN  IF search_results = <<>>
        THEN Out(s1, get_response(llm, "not_found", ErrorContext), <<>>)
        ELSE IF Len(search_results) = 1
        THEN Out([s1 EXCEPT !.selected_player = search_results[1],
                            !.current_state = COMPLETED],
                 get_response(llm, "selected",
                              PlayerContext(search_results[1])), <<>>)
        ELSE Out([s1 EXCEPT !.current_state = SHOWING_RESULTS],
                 get_response(llm, "results_list",
                              ResultsContext(search_results, TRUE)), <<>>)

handle_search_state(s, search_results, llm) ==
    LET s1 == [s EXCEPT !.search_results = search_results]
    IN  IF search_results = <<>>
        THEN Out([s1 EXCEPT !.current_state = ERROR],
                 get_response(llm, "not_found", ErrorContext), <<>>)
        ELSE IF Len(search_results) = 1
        THEN Out([s1 EXCEPT !.selected_player = search_results[1],
                            !.current_state = COMPLETED],
                 get_response(llm, "selected",
                              PlayerContext(search_results[1])), <<>>)
        ELSE Out([s1 EXCEPT !.current_state = SHOWING_RESULTS],
                 get_response(llm, "results_list",
                              ResultsContext(search_results, TRUE)), <<>>)

\* index of the first candidate whose lower-cased name contains the
\* lower-cased, stripped input; 0 when there is none
FirstNameMatch(results, user_input) ==
    LET needle == Strip(Lower(user_input))
        hits == {i \in 1..Len(results) :
                    Contains(needle, Lower(results[i].player_name))}
    IN  IF hits = {} THEN 0
        ELSE CHOOSE i \in hits : \A j \in hits : i <= j

\* handle_selection_state that takes an empty name fragment for no match
handle_selection_state_rejecting_empty(s, user_input, llm) ==
    LET invalid == Out(s, get_response(llm, "invalid_selection", ErrorContext), <<>>)
        pick(i) == Out([s EXCEPT !.selected_player = s.search_results[i],
                                 !.current_state = COMPLETED],
                       get_response(llm, "selected",
                                    PlayerContext(s.search_results[i])), <<>>)
    IN  IF IsInt(user_input)
        THEN LET selection == IntValue(user_input)
             IN  IF 1 <= selection /\ selection <= Len(s.search_results)
                 THEN pick(selection)
                 ELSE invalid
        ELSE LET i == FirstNameMatch(s.search_results, user_input)
             IN  IF i # 0 /\ Strip(user_input) # <<>> THEN pick(i) ELSE invalid

handle_selection_state(s, user_input, llm) ==
    LET invalid == Out(s, get_response(llm, "invalid_selection", ErrorContext), <<>>)
        pick(i) == Out([s EXCEPT !.selected_player = s.search_results[i],
                                 !.current_state = COMPLETED],
                       get_response(llm, "selected",
                                    PlayerContext(s.search_results[i])), <<>>)
    IN  IF IsInt(user_input)
        THEN LET selection == IntValue(user_input)
             IN  IF 1 <= selection /\ selection <= Len(s.search_results)
                 THEN pick(selection)
                 ELSE invalid
        ELSE LET i == FirstNameMatch(s.search_results, user_input)
             IN  IF i # 0 THEN pick(i) ELSE invalid

\* ['yes', 'y', 'confirm', 'sure', 'ok']
AffirmativeTokens ==
    { <<"y", "e", "s">>, <<"y">>, <<"c", "o", "n", "f", "i", "r", "m">>,
      <<"s", "u", "r", "e">>, <<"o", "k">> }

\* ['no', 'n', 'cancel', 'other', 'different']
NegativeTokens ==
    { <<"n", "o">>, <<"n">>, <<"c", "a", "n", "c", "e", "l">>,
      <<"o", "t", "h", "e", "r">>,
      <<"d", "i", "f", "f", "e", "r", "e", "n", "t">> }

\* result of handle_confirmation_state: session after, text returned,
\* confirmed player returned (the second element of the tuple)
ConfirmOut(s, resp, confirmed) ==
    [s |-> s, resp |-> resp, confirmed |-> confirmed]

\* handle_confirmation_state that takes every answer that is not a negative
\* token for a confirmation
handle_confirmation_state_default_yes(s, user_input, llm) ==
    LET user_input_lower == Strip(Lower(user_input))
    IN  IF user_input_lower \in NegativeTokens
        THEN ConfirmOut([s EXCEPT !.current_state = SHOWING_RESULTS],
                        get_response(llm, "results_list",
                                     ResultsContext(s.search_results, FALSE)), NoPlayer)
        ELSE IF s.selected_player = NoPlayer
        THEN ConfirmOut([s EXCEPT !.current_state = ERROR],
                        get_response(llm, "no_player_selected", ErrorContext), NoPlayer)
        ELSE ConfirmOut([s EXCEPT !.current_state = COMPLETED],
                        get_response(llm, "selected",
                                          PlayerContext(s.selected_player)), s.selected_player)

handle_confirmation_state(s, user_input, llm) ==
    LET user_input_lower == Strip(Lower(user_input))
    IN  IF user_input_lower \in AffirmativeTokens
        THEN IF s.selected_player = NoPlayer
             THEN ConfirmOut([s EXCEPT !.current_state = ERROR],
                             get_response(llm, "no_player_selected", ErrorContext),
                             NoPlayer)
             ELSE ConfirmOut([s EXCEPT !.current_state = COMPLETED],
                             get_response(llm, "selected",
                                          PlayerContext(s.selected_player)),
                             s.selected_player)
        ELSE IF user_input_lower \in NegativeTokens
        THEN ConfirmOut([s EXCEPT !.current_state = SHOWING_RESULTS],
                        get_response(llm, "results_list",
                                     ResultsContext(s.search_results, FALSE)), NoPlayer)
        ELSE ConfirmOut(s, get_response(llm, "confirm_prompt",
                                     PlayerContext(s.selected_player)), NoPlayer)

(***************************************************************************)
(* SoccerAgent                                                             *)
(***************************************************************************)
\* a search that leaves the single match to be confirmed
_handle_search_request_confirming(s, matcher, llm) ==
    IF matcher.raised
    THEN Out([s EXCEPT !.current_state = ERROR],
             get_response(llm, "search_error", ErrorContext), <<"search">>)
    ELSE LET r == handle_search_state(s, matcher.results, llm)
         IN  Out(IF Len(matcher.results) = 1
                 THEN [r.s EXCEPT !.current_state = CONFIRMING_SELECTION]
                 ELSE r.s,
                 r.resp, <<"search">>)

_handle_search_request(s, matcher, llm) ==
    IF matcher.raised
    THEN Out([s EXCEPT !.current_state = ERROR],
             get_response(llm, "search_error", ErrorContext), <<"search">>)
    ELSE LET r == handle_search_state(s, matcher.results, llm)
         IN  Out(IF Len(matcher.results) = 1
                 THEN [r.s EXCEPT !.current_state = COMPLETED]
                 ELSE r.s,
                 r.resp, <<"search">>)

\* an analysis that stores the fetched data and then marks the session ERROR
\* when the report cannot be generated
_analyze_selected_player_error_after_store(s, selected_player, fetch, llm) ==
    IF \/ s.player_data = NoData
       \/ s.selected_player = NoPlayer
       \/ s.selected_player.player_id # selected_player.player_id
    THEN IF fetch \in {"raise", "none"}
         THEN Out(s, get_response(llm, "analysis_error", ErrorContext), <<"fetch">>)
         ELSE Out([s EXCEPT
                     !.player_data = [player_id |-> selected_player.player_id,
                                      kind |-> fetch],
                     !.selected_player = selected_player,
                     !.current_state = IF llm THEN COMPLETED ELSE ERROR],
                  get_response(llm, "report", EmptyContext), <<"fetch">>)
    ELSE Out([s EXCEPT !.current_state = COMPLETED],
             get_response(llm, "report", EmptyContext), <<>>)

_analyze_selected_player(s, selected_player, fetch, llm) ==
    IF \/ s.player_data = NoData
       \/ s.selected_player = NoPlayer
       \/ s.selected_player.player_id # selected_player.player_id
    THEN IF fetch \in {"raise", "none"}
         THEN Out(s, get_response(llm, "analysis_error", ErrorContext), <<"fetch">>)
         ELSE Out([s EXCEPT
                     !.player_data = [player_id |-> selected_player.player_id,
                                      kind |-> fetch],
                     !.selected_player = selected_player,
                     !.current_state = COMPLETED],
                  get_response(llm, "report", EmptyContext), <<"fetch">>)
    ELSE Out([s EXCEPT !.current_state = COMPLETED],
             get_response(llm, "report", EmptyContext), <<"cached">>)

\* a follow-up handler that fetches the data again when none is stored
_handle_follow_up_question_refetching(s, llm) ==
    IF s.player_data = NoData
    THEN Out([s EXCEPT !.player_data =
                 [player_id |-> s.selected_player.player_id, kind |-> "full"]],
             get_response(llm, "followup_answer", EmptyContext), <<"fetch">>)
    ELSE Out(s, get_response(llm, "followup_answer", EmptyContext), <<>>)

_handle_follow_up_question(s, llm) ==
    IF s.player_data = NoData
    THEN Out(s, "followup_error", <<>>)
    ELSE Out(s, get_response(llm, "followup_answer", EmptyContext), <<>>)

\* handle_message, branch `current_state == SEARCHING`
handle_message_searching(s, matcher, fetch, llm) ==
    LET r == _handle_search_request(s, matcher, llm)
    IN  IF Len(r.s.search_results) = 1
        THEN LET player == r.s.search_results[1]
                 s2 == [r.s EXCEPT !.selected_player = player,
                                   !.current_state = COMPLETED]
                 a == _analyze_selected_player(s2, player, fetch, llm)
             IN  Out(a.s, a.resp, r.calls \o a.calls)
        ELSE r

\* handle_message, branch `current_state == SHOWING_RESULTS`
handle_message_showing(s, message, fetch, llm) ==
    LET r == handle_selection_state(s, message, llm)
    IN  IF r.s.current_state = COMPLETED /\ r.s.selected_player # NoPlayer
        THEN LET a == _analyze_selected_player(r.s, r.s.selected_player,
                                               fetch, llm)
             IN  Out(a.s, a.resp, r.calls \o a.calls)
        ELSE r

\* COMPLETED branch that starts the new search without resetting the session
handle_message_completed_no_reset(s, matcher, followup, llm) ==
    IF s.selected_player # NoPlayer /\ followup
    THEN LET r == _handle_follow_up_question(s, llm)
         IN  Out(r.s, r.resp, <<"classify">> \o r.calls)
    ELSE LET r == _handle_search_request(s, matcher, llm)
         IN  Out(r.s, r.resp,
                 (IF s.selected_player # NoPlayer
                  THEN <<"classify">> ELSE <<>>) \o r.calls)

\* handle_message, branch `current_state == COMPLETED`
\*   followup: the answer of _is_follow_up_question, which is asked only
\*   when a player is selected
handle_message_completed(s, matcher, followup, llm) ==
    IF s.selected_player # NoPlayer /\ followup
    THEN LET r == _handle_follow_up_question(s, llm)
         IN  Out(r.s, r.resp, <<"classify">> \o r.calls)
    ELSE LET r == _handle_search_request(reset(s), matcher, llm)
         IN  Out(r.s, r.resp,
                 (IF s.selected_player # NoPlayer
                  THEN <<"classify">> ELSE <<>>) \o <<"reset">> \o r.calls)

\* a final branch that answers without resetting or searching again
handle_message_other_locked_out(s, matcher, llm) ==
    Out(s, get_response(llm, "search_error", ErrorContext), <<>>)

\* handle_message, the final `else` branch (ERROR, CONFIRMING_SELECTION)
handle_message_other(s, matcher, llm) ==
    LET r == _handle_search_request(reset(s), matcher, llm)
    IN  Out(r.s, r.resp, <<"reset">> \o r.calls)

\* the body of handle_message once the session exists: the branches
\* compare the local current_state, read from the session once (436), and
\* then work on the session itself
handle_message(s, message, matcher, fetch, followup, llm) ==
    LET current_state == s.current_state
    IN  IF current_state = SEARCHING
        THEN handle_message_searching(s, matcher, fetch, llm)
        ELSE IF current_state = SHOWING_RESULTS
        THEN handle_message_showing(s, message, fetch, llm)
        ELSE IF current_state = COMPLETED
        THEN handle_message_completed(s, matcher, followup, llm)
        ELSE handle_message_other(s, matcher, llm)

Called(calls, c) == \E i \in 1..Len(calls) : calls[i] = c

(***************************************************************************)
(* PlayerSelectionFlow                                                     *)
(***************************************************************************)
\* user_context is a dictionary: the set of its (key, value) pairs
Flow(st, res, sel) ==
    [conversation_state |-> st, search_results |-> res,
     selected_player |-> sel, user_context |-> {}]

\* PlayerSelectionFlow.__init__
NewFlow == Flow(SEARCHING, <<>>, NoPlayer)

\* the text a flow method returns: its kind and the bounds it names
Text(kind, lo, hi) == [kind |-> kind, lo |-> lo, hi |-> hi]

\* result of a flow method: flow after, text, confirmed player returned
FlowOut(f, resp, confirmed) == [f |-> f, resp |-> resp, confirmed |-> confirmed]

\* process_search_results without the `if not results` branch
process_search_results_no_empty_check(f, results) ==
    LET f1 == [f EXCEPT !.search_results = results,
                        !.conversation_state = SHOWING_RESULTS]
    IN  IF Len(results) = 1
        THEN FlowOut([f1 EXCEPT !.selected_player = results[1],
                                !.conversation_state = CONFIRMING_SELECTION],
                     Text("single_result", 0, 0), NoPlayer)
        ELSE FlowOut(f1, Text("multiple_results", 1, Len(results)), NoPlayer)

\* process_search_results without the `len(results) == 1` branch
process_search_results_no_auto_select(f, results) ==
    LET f1 == [f EXCEPT !.search_results = results,
                        !.conversation_state = SHOWING_RESULTS]
    IN  IF results = <<>>
        THEN FlowOut([f1 EXCEPT !.conversation_state = ERROR],
                     Text("not_found", 0, 0), NoPlayer)
        ELSE FlowOut(f1, Text("multiple_results", 1, Len(results)), NoPlayer)

\* PlayerSelectionFlow.start_search: back to SEARCHING with the query noted;
\* the candidates and the selection stay as they are
start_search(f, player_name) ==
    FlowOut([f EXCEPT !.conversation_state = SEARCHING,
                      !.user_context =
                          {p \in f.user_context : p[1] # "search_query"}
                              \cup {<<"search_query", player_name>>}],
            Text("searching", 0, 0), NoPlayer)

process_search_results(f, results) ==
    LET f1 == [f EXCEPT !.search_results = results,
                        !.conversation_state = SHOWING_RESULTS]
    IN  IF results = <<>>
        THEN FlowOut([f1 EXCEPT !.conversation_state = ERROR],
                     Text("not_found", 0, 0), NoPlayer)
        ELSE IF Len(results) = 1
        THEN FlowOut([f1 EXCEPT !.selected_player = results[1],
                                !.conversation_state = CONFIRMING_SELECTION],
                     Text("single_result", 0, 0), NoPlayer)
        ELSE FlowOut(f1, Text("multiple_results", 1, Len(results)), NoPlayer)

\* handle_user_selection without the `1 <=` half of the range test: Python
\* then indexes from the end of the list for 0 and negative numbers
handle_user_selection_no_lower_bound(f, user_input) ==
    LET pick(i) ==
            FlowOut([f EXCEPT !.selected_player = f.search_results[i],
                              !.conversation_state = CONFIRMING_SELECTION],
                    Text("confirmation", 0, 0), NoPlayer)
        n == Len(f.search_results)
    IN  IF IsInt(user_input)
        THEN LET selection == IntValue(user_input)
             IN  IF 1 <= selection /\ selection <= n
                 THEN pick(selection)
                 ELSE IF selection <= 0 /\ n + selection >= 1
                 THEN pick(n + selection)
                 ELSE FlowOut(f, Text("range_error", 1, n), NoPlayer)
        ELSE LET i == FirstNameMatch(f.search_results, user_input)
             IN  IF i # 0 THEN pick(i)
                 ELSE FlowOut(f, Text("no_match", 1, n), NoPlayer)

\* handle_user_selection that indexes with the number itself instead of
\* selection - 1: the last number is then past the end of the list
handle_user_selection_off_by_one(f, user_input) ==
    LET pick(i) ==
            FlowOut([f EXCEPT !.selected_player = f.search_results[i],
                              !.conversation_state = CONFIRMING_SELECTION],
                    Text("confirmation", 0, 0), NoPlayer)
        n == Len(f.search_results)
    IN  IF IsInt(user_input)
        THEN LET selection == IntValue(user_input)
             IN  IF 1 <= selection /\ selection < n
                 THEN pick(selection + 1)
                 ELSE FlowOut(f, Text("range_error", 1, n), NoPlayer)
        ELSE LET i == FirstNameMatch(f.search_results, user_input)
             IN  IF i # 0 THEN pick(i)
                 ELSE FlowOut(f, Text("no_match", 1, n), NoPlayer)

\* handle_user_selection whose name loop does not return at the first
\* match, so that the last matching candidate wins
handle_user_selection_last_match(f, user_input) ==
    LET pick(i) ==
            FlowOut([f EXCEPT !.selected_player = f.search_results[i],
                              !.conversation_state = CONFIRMING_SELECTION],
                    Text("confirmation", 0, 0), NoPlayer)
        n == Len(f.search_results)
        needle == Strip(Lower(user_input))
        hits == {i \in 1..n :
                    Contains(needle, Lower(f.search_results[i].player_name))}
    IN  IF IsInt(user_input)
        THEN LET selection == IntValue(user_input)
             IN  IF 1 <= selection /\ selection <= n
                 THEN pick(selection)
                 ELSE FlowOut(f, Text("range_error", 1, n), NoPlayer)
        ELSE IF hits # {}
        THEN pick(CHOOSE i \in hits : \A j \in hits : j <= i)
        ELSE FlowOut(f, Text("no_match", 1, n), NoPlayer)

handle_user_selection(f, user_input) ==
    LET pick(i) ==
            FlowOut([f EXCEPT !.selected_player = f.search_results[i],
                              !.conversation_state = CONFIRMING_SELECTION],
                    Text("confirmation", 0, 0), NoPlayer)
    IN  IF IsInt(user_input)
        THEN LET selection == IntValue(user_input)
             IN  IF 1 <= selection /\ selection <= Len(f.search_results)
                 THEN pick(selection)
                 ELSE FlowOut(f, Text("range_error", 1, Len(f.search_results)),
                              NoPlayer)
        ELSE LET i == FirstNameMatch(f.search_results, user_input)
             IN  IF i # 0 THEN pick(i)
                 ELSE FlowOut(f, Text("no_match", 1, Len(f.search_results)),
                              NoPlayer)

\* handle_confirmation whose negative branch starts over with an empty list
handle_confirmation_negative_restarts(f, user_input) ==
    LET user_input_lower == Strip(Lower(user_input))
    IN  IF user_input_lower \in AffirmativeTokens
        THEN IF f.selected_player = NoPlayer
             THEN FlowOut(f, Text("error", 0, 0), NoPlayer)
             ELSE FlowOut([f EXCEPT !.conversation_state = COMPLETED],
                          Text("selected", 0, 0), f.selected_player)
        ELSE IF user_input_lower \in NegativeTokens
        THEN FlowOut([f EXCEPT !.conversation_state = SEARCHING,
                               !.search_results = <<>>],
                     Text("multiple_results", 1, 0), NoPlayer)
        ELSE FlowOut(f, Text("reprompt", 0, 0), NoPlayer)

handle_confirmation(f, user_input) ==
    LET user_input_lower == Strip(Lower(user_input))
    IN  IF user_input_lower \in AffirmativeTokens
        THEN IF f.selected_player = NoPlayer
             THEN FlowOut(f, Text("error", 0, 0), NoPlayer)
             ELSE FlowOut([f EXCEPT !.conversation_state = COMPLETED],
                          Text("selected", 0, 0), f.selected_player)
        ELSE IF user_input_lower \in NegativeTokens
        THEN FlowOut([f EXCEPT !.conversation_state = SHOWING_RESULTS],
                     Text("multiple_results", 1, Len(f.search_results)),
                     NoPlayer)
        ELSE FlowOut(f, Text("reprompt", 0, 0), NoPlayer)

\* PlayerSelectionFlow.reset
flow_reset(f) == Flow(SEARCHING, <<>>, NoPlayer)

\* the answers users give to the confirmation prompt
Answers ==
    { <<"y", "e", "s">>, <<" ", "Y", " ">>, <<"O", "k">>,
      <<"n", "o">>, <<"N">>, <<"o", "t", "h", "e", "r">>,
      <<" ", "N", "O", " ">>, <<"\t", "n", "o", "\n">>,
      <<Unescaped.VT, "y", "e", "s", Unescaped.NBSP>>, <<"N", "Ö">>,
      <<"Y", "E", "Σ">>,
      <<"m", "a", "y", "b", "e">>, <<>>, <<"1">> }

(***************************************************************************)
(* The scripted dialogue of examples/simple_agent_example.py:              *)
(* a first message answered by two candidates, then "1", then "yes".       *)
(* path[u] counts how many of its messages user u has sent in a row.       *)
(***************************************************************************)
ExampleStep(p, isFirst, message, matcher, calls) ==
    IF isFirst /\ Called(calls, "search") /\ ~matcher.raised
               /\ Len(matcher.results) = 2 THEN 1
    ELSE IF p = 1 /\ message = <<"1">> THEN 2
    ELSE IF p = 2 /\ message = <<"y", "e", "s">> THEN 3
    ELSE 0

(***************************************************************************)
(* State machine of the SoccerAgent                                        *)
(***************************************************************************)
NoCall ==
    [op |-> "none", user |-> "none", created |-> FALSE, pre |-> NewSession,
     message |-> <<>>, matcher |-> NoMatcher, fetch |-> "unused",
     followup |-> FALSE, resp |-> "none", calls |-> <<>>]

\* the user of the machine that records each call in full, and the users of
\* the machine that runs several conversations side by side
Users == {"u1"}

Users2 == {"u1", "u2"}

NoFlowCall ==
    [op |-> "none", pre |-> NewFlow, input |-> <<>>, results |-> <<>>,
     resp |-> Text("none", 0, 0), confirmed |-> NoPlayer]

\* the calls that can be in flight at once
Threads == {1, 2}

\* a thread that has not called the agent: no operation, no locals.
\*   session, current_state: the locals of handle_message
\*   inner: the local `session` of the helper the call is in, the `self`
\*     of the reset it runs
\*   search_results, direct: the results the matcher returned to
\*     _handle_search_request, and whether its answer is returned as it is
\*     (lines 467, 471) or looked at again (lines 444-450)
\*   player: the local `player` of handle_message, `result` of
\*     handle_selection_state, the selected_player argument of the helpers
\*   selection: the local `selection` of handle_selection_state
IdleThread ==
    [pc |-> "idle", op |-> "none", user |-> "none", message |-> << >>,
     session |-> 0, current_state |-> "none", resp |-> "none",
     inner |-> 0, search_results |-> << >>, direct |-> FALSE,
     player |-> NoPlayer, selection |-> 0]

NoSearchCall ==
    [op |-> "none", api_key |-> TRUE, player_name |-> << >>,
     data |-> [kind |-> "raise", players |-> << >>], results |-> << >>]

NoManagerCall ==
    [op |-> "none", pre |-> NewSession, input |-> <<>>, results |-> <<>>,
     resp |-> "none", confirmed |-> NoPlayer]

Init ==
    /\ user_sessions = << >>
    /\ last = NoCall
    /\ path = [u \in Users |-> 0]
    /\ flow = NewFlow
    /\ flast = NoFlowCall
    /\ manager = NewSession
    /\ mlast = NoManagerCall
    /\ heap = << >>
    /\ store = << >>
    /\ threads = [t \in Threads |-> IdleThread]
    /\ slast = NoSearchCall

\* All the ways one handle_message call on session `pre` can go: each
\* collaborator's answer is drawn only when the call reaches that
\* collaborator, and is recorded as unused otherwise.
HandleOutcomes(pre) ==
    LET probe(message, matcher, followup) ==
            handle_message(pre, message, matcher, "unused", followup, TRUE).calls
        texts == IF pre.current_state = SHOWING_RESULTS
                 THEN Msgs ELSE QueryTexts
        followups(m) ==
            IF Called(probe(m, NoMatcher, FALSE), "classify")
            THEN BOOLEAN ELSE {FALSE}
        matchers(m, fu) ==
            IF Called(probe(m, NoMatcher, fu), "search")
            THEN MatcherOutcomes ELSE {NoMatcher}
        fetches(m, fu, mo) ==
            IF Called(probe(m, mo, fu), "fetch")
            THEN FetchOutcomes ELSE {"unused"}
        call(m, fu, mo, f, llm) ==
            LET r == handle_message(pre, m, mo, f, fu, llm)
            IN  [message |-> m, followup |-> fu, matcher |-> mo, fetch |-> f,
                 s |-> r.s, resp |-> r.resp, calls |-> r.calls]
    IN  UNION { UNION { UNION { UNION {
            { call(m, fu, mo, f, llm) : llm \in BOOLEAN }
              : f \in fetches(m, fu, mo) }
              : mo \in matchers(m, fu) }
              : fu \in followups(m) }
              : m \in texts }

\* user_sessions after the call stored session s for user_id
WithSession(user_id, s) ==
    [v \in DOMAIN user_sessions \cup {user_id} |->
        IF v = user_id THEN s ELSE user_sessions[v]]

\* an exception that escapes the body of handle_message is left to the caller
handle_message_no_except == "raise"

\* the outer `except Exception` of handle_message: the exception is logged and
\* the fixed apology text is returned
handle_message_except == "unexpected_error"

\* SoccerAgent.handle_message(user_id, message).  The session is created on
\* the user's first message; when LangChainConversationManager() raises, the
\* outer `except` answers and no session is stored.
HandleMessage(user_id) ==
    LET created == user_id \notin DOMAIN user_sessions
        pre == IF created THEN NewSession ELSE user_sessions[user_id]
    IN  \/ /\ created
           /\ \E message \in QueryTexts :
                 last' = [NoCall EXCEPT !.op = "handle_message",
                                        !.user = user_id,
                                        !.message = message,
                                        !.resp = handle_message_except]
           /\ path' = [path EXCEPT ![user_id] = 0]
           /\ UNCHANGED <<user_sessions, flow, flast, manager, mlast, heap, store, threads, slast>>
        \/ \E c \in HandleOutcomes(pre) :
              /\ user_sessions' = WithSession(user_id, c.s)
              /\ last' = [op |-> "handle_message", user |-> user_id,
                          created |-> created, pre |-> pre,
                          message |-> c.message, matcher |-> c.matcher,
                          fetch |-> c.fetch, followup |-> c.followup,
                          resp |-> c.resp, calls |-> c.calls]
              /\ path' = [path EXCEPT ![user_id] =
                            ExampleStep(path[user_id], created, c.message,
                                        c.matcher, c.calls)]
              /\ UNCHANGED <<flow, flast, manager, mlast, heap, store, threads, slast>>

\* SoccerAgent.reset_user_session(user_id)
ResetUserSession(user_id) ==
    /\ user_sessions' =
          [v \in DOMAIN user_sessions |->
              IF v = user_id THEN reset(user_sessions[v])
              ELSE user_sessions[v]]
    /\ last' = [NoCall EXCEPT !.op = "reset_user_session", !.user = user_id,
                              !.pre = IF user_id \in DOMAIN user_sessions
                                      THEN user_sessions[user_id]
                                      ELSE NewSession]
    /\ path' = [path EXCEPT ![user_id] = 0]
    /\ UNCHANGED <<flow, flast, manager, mlast, heap, store, threads, slast>>

\* a status query that gets or creates the session, as handle_message does
get_user_state_creating(sessions, user_id) ==
    IF user_id \in DOMAIN sessions
    THEN [sessions |-> sessions, state |-> sessions[user_id].current_state]
    ELSE [sessions |-> [v \in DOMAIN sessions \cup {user_id} |->
                          IF v = user_id THEN NewSession ELSE sessions[v]],
          state |-> SEARCHING]

\* SoccerAgent.get_user_state: the store after the call and the state returned
get_user_state(sessions, user_id) ==
    IF user_id \in DOMAIN sessions
    THEN [sessions |-> sessions, state |-> sessions[user_id].current_state]
    ELSE [sessions |-> sessions, state |-> SEARCHING]

\* SoccerAgent.get_user_state(user_id); last.resp holds the state returned
GetUserState(user_id) ==
    LET r == get_user_state(user_sessions, user_id)
    IN  /\ user_sessions' = r.sessions
        /\ last' = [NoCall EXCEPT !.op = "get_user_state", !.user = user_id,
                                  !.resp = r.state]
        /\ UNCHANGED <<path, flow, flast, manager, mlast, heap, store, threads, slast>>

Next ==
    \/ \E u \in Users : HandleMessage(u)
    \/ \E u \in Users : ResetUserSession(u)
    \/ \E u \in Users : GetUserState(u)

Spec == Init /\ [][Next]_vars

(***************************************************************************)
(* State machine of the SoccerAgent serving several users: the same calls  *)
(* in any order over the users, the history keeping only who called what.  *)
(***************************************************************************)
Brief(op, user_id) == [NoCall EXCEPT !.op = op, !.user = user_id]

UserMessage(user_id) ==
    LET created == user_id \notin DOMAIN user_sessions
        pre == IF created THEN NewSession ELSE user_sessions[user_id]
    IN  /\ \/ created /\ UNCHANGED user_sessions
           \/ \E s \in {c.s : c \in HandleOutcomes(pre)} :
                 user_sessions' = WithSession(user_id, s)
        /\ last' = Brief("handle_message", user_id)
        /\ UNCHANGED <<path, flow, flast, manager, mlast, heap, store, threads, slast>>

UserReset(user_id) ==
    /\ user_sessions' =
          [v \in DOMAIN user_sessions |->
              IF v = user_id THEN reset(user_sessions[v])
              ELSE user_sessions[v]]
    /\ last' = Brief("reset_user_session", user_id)
    /\ UNCHANGED <<path, flow, flast, manager, mlast, heap, store, threads, slast>>

NextUsers ==
    \/ \E u \in Users2 : UserMessage(u)
    \/ \E u \in Users2 : UserReset(u)

SpecUsers == Init /\ [][NextUsers]_vars

(***************************************************************************)
(* State machine of one PlayerSelectionFlow driven by a state-respecting   *)
(* caller: each method is called only in the state it serves, start_search *)
(* and reset at any time.                                                  *)
(***************************************************************************)
FlowCall(op, input, results, r) ==
    /\ flow' = r.f
    /\ flast' = [op |-> op, pre |-> flow, input |-> input,
                 results |-> results, resp |-> r.resp,
                 confirmed |-> r.confirmed]
    /\ UNCHANGED <<user_sessions, last, path, manager, mlast, heap, store, threads, slast>>

StartSearch ==
    \E player_name \in QueryTexts :
        FlowCall("start_search", player_name, <<>>,
                 start_search(flow, player_name))

ProcessSearchResults ==
    /\ flow.conversation_state = SEARCHING
    /\ \E results \in ResultLists :
          FlowCall("process_search_results", <<>>, results,
                   process_search_results(flow, results))

HandleUserSelection ==
    /\ flow.conversation_state = SHOWING_RESULTS
    /\ \E user_input \in Msgs :
          FlowCall("handle_user_selection", user_input, <<>>,
                   handle_user_selection(flow, user_input))

HandleConfirmation ==
    /\ flow.conversation_state = CONFIRMING_SELECTION
    /\ \E user_input \in Answers :
          FlowCall("handle_confirmation", user_input, <<>>,
                   handle_confirmation(flow, user_input))

FlowReset ==
    FlowCall("reset", <<>>, <<>>, FlowOut(flow_reset(flow), Text("none", 0, 0),
                                          NoPlayer))

NextFlow ==
    \/ StartSearch
    \/ ProcessSearchResults
    \/ HandleUserSelection
    \/ HandleConfirmation
    \/ FlowReset

SpecFlow == Init /\ [][NextFlow]_vars

(***************************************************************************)
(* One direct call on a PlayerSelectionFlow and on a                       *)
(* LangChainConversationManager.  The flow starts in any state its own     *)
(* methods bring it to from __init__, called in any order; nothing else    *)
(* assigns its fields.  The manager starts with the same state, candidates *)
(* and selection (its fields are assigned by its handlers and by           *)
(* SoccerAgent) and gets the same input.                                   *)
(***************************************************************************)
RECURSIVE FlowsFrom(_)
\* the flows that calls of the public methods of PlayerSelectionFlow, in any
\* number and order, leave when they start from one of `flows`
FlowsFrom(flows) ==
    LET called(f) ==
            {start_search(f, player_name).f : player_name \in QueryTexts}
                \cup {process_search_results(f, results).f :
                          results \in ResultLists}
                \cup {handle_user_selection(f, user_input).f :
                          user_input \in Msgs}
                \cup {handle_confirmation(f, user_input).f :
                          user_input \in Answers}
                \cup {flow_reset(f)}
        more == flows \cup UNION {called(f) : f \in flows}
    IN  IF more = flows THEN flows ELSE FlowsFrom(more)

InitDirect ==
    /\ user_sessions = << >>
    /\ last = NoCall
    /\ path = [u \in Users |-> 0]
    /\ flast = NoFlowCall
    /\ mlast = NoManagerCall
    /\ heap = << >>
    /\ store = << >>
    /\ threads = [t \in Threads |-> IdleThread]
    /\ slast = NoSearchCall
    /\ \E f \in FlowsFrom({NewFlow}),
          pd \in {NoData, [player_id |-> "p1", kind |-> "full"]} :
          /\ flow = f
          /\ manager = Session(f.conversation_state, f.search_results,
                               f.selected_player, pd)

DirectCall(fop, mop, input, results, fr, mr) ==
    /\ flast.op = "none" /\ mlast.op = "none"
    /\ flow' = fr.f
    /\ flast' = [op |-> fop, pre |-> flow, input |-> input,
                 results |-> results, resp |-> fr.resp,
                 confirmed |-> fr.confirmed]
    /\ manager' = mr.s
    /\ mlast' = [op |-> mop, pre |-> manager, input |-> input,
                 results |-> results, resp |-> mr.resp,
                 confirmed |-> mr.confirmed]
    /\ UNCHANGED <<user_sessions, last, path, heap, store, threads, slast>>

\* process_search_results(results) and handle_search_state(input, results)
DirectSearch ==
    \E results \in ResultLists, llm \in BOOLEAN :
        LET r == handle_search_state(manager, results, llm)
        IN  DirectCall("process_search_results", "handle_search_state",
                       <<>>, results,
                       process_search_results(flow, results),
                       ConfirmOut(r.s, r.resp, NoPlayer))

\* handle_user_selection(input) and handle_selection_state(input); while the
\* candidates are shown the inputs include a text of 4301 digits, one more
\* than int() converts
DirectSelection ==
    \E user_input \in IF flow.conversation_state = SHOWING_RESULTS
                       THEN Msgs \cup {[i \in 1..4301 |-> "1"]}
                       ELSE Msgs,
       llm \in BOOLEAN :
        LET r == handle_selection_state(manager, user_input, llm)
        IN  DirectCall("handle_user_selection", "handle_selection_state",
                       user_input, <<>>,
                       handle_user_selection(flow, user_input),
                       ConfirmOut(r.s, r.resp, NoPlayer))

\* handle_confirmation(input) and handle_confirmation_state(input)
DirectConfirmation ==
    \E user_input \in Answers, llm \in BOOLEAN :
        DirectCall("handle_confirmation", "handle_confirmation_state",
                   user_input, <<>>,
                   handle_confirmation(flow, user_input),
                   handle_confirmation_state(manager, user_input, llm))

\* the reset() of both classes
DirectReset ==
    DirectCall("reset", "reset", <<>>, <<>>,
               FlowOut(flow_reset(flow), Text("none", 0, 0), NoPlayer),
               ConfirmOut(reset(manager), "none", NoPlayer))

NextDirect ==
    \/ DirectSearch
    \/ DirectSelection
    \/ DirectConfirmation
    \/ DirectReset

SpecDirect == InitDirect /\ [][NextDirect]_vars

(***************************************************************************)
(* SoccerAgent called from two threads.  Neither handle_message nor        *)
(* reset_user_session takes a lock, so the statements of two calls         *)
(* interleave.  A step of a call is one statement that reads or writes     *)
(* what the calls share: the store user_sessions and the fields of the     *)
(* session objects.  The statements between two such statements work on    *)
(* the call's own locals (logging, waiting for the LLM, the matcher or the *)
(* fetch) and ride with the step that follows them; the pc of a thread     *)
(* names the source line of its next step.  Sessions are objects in heap,  *)
(* store maps a user to the object stored under that user's id; a helper   *)
(* looks the session up in the store again wherever the code does.  An     *)
(* exception that no inner handler catches reaches the outer `except` of   *)
(* handle_message; a call that is in an `except` block has not returned:   *)
(* it logs the exception first (474, 542), and the other call runs on.     *)
(***************************************************************************)
\* a number, a text found in a candidate's name, a text found in none
RaceMessages == { <<"1">>, <<"b">>, <<"z">> }

\* the matcher's answers while two calls overlap: it raises, or finds no,
\* one or two candidates
RaceMatcherOutcomes ==
    {mo \in MatcherOutcomes :
        mo.raised \/ mo.results \in {<< >>, <<P3>>, <<P1, P2>>}}

\* the sessions one message leaves behind: where a user's session can be
\* when two further calls arrive
FirstSessions ==
    {handle_message(NewSession, <<"z">>, matcher, fetch, FALSE, llm).s :
        matcher \in RaceMatcherOutcomes, fetch \in FetchOutcomes,
        llm \in BOOLEAN}

\* a session object in heap records who it was constructed for, by which
\* thread (0: before the two calls), and its fields
InitRace ==
    /\ user_sessions = << >>
    /\ last = NoCall
    /\ path = [u \in Users |-> 0]
    /\ flow = NewFlow
    /\ flast = NoFlowCall
    /\ manager = NewSession
    /\ mlast = NoManagerCall
    /\ threads = [t \in Threads |-> IdleThread]
    /\ slast = NoSearchCall
    /\ \/ heap = << >> /\ store = << >>
       \/ \E s \in FirstSessions :
             /\ heap = <<[user |-> "u1", by |-> 0, session |-> s]>>
             /\ store = [u \in {"u1"} |-> 1]

\* the call of a thread returns: the locals of its helpers are gone
Returned(th, resp) ==
    [th EXCEPT !.pc = "done", !.resp = resp, !.inner = 0,
               !.search_results = << >>, !.direct = FALSE,
               !.player = NoPlayer, !.selection = 0]

\* an exception leaves the helpers of the call and reaches the outer
\* `except` of handle_message (473): the call is about to log it (474)
Raised(th) == [Returned(th, th.resp) EXCEPT !.pc = "l474"]

\* a step of thread t that leaves the heap h and the thread as th2
Step(t, h, th2) ==
    /\ heap' = h
    /\ threads' = [threads EXCEPT ![t] = th2]
    /\ UNCHANGED store
    /\ UNCHANGED <<user_sessions, last, path, flow, flast, manager, mlast,
                   slast>>

\* a thread calls handle_message(user_id, message) or
\* reset_user_session(user_id)
RaceStart(t) ==
    /\ threads[t].pc = "idle"
    /\ \E user_id \in Users2 :
          \/ \E message \in RaceMessages :
                threads' = [threads EXCEPT ![t] =
                    [IdleThread EXCEPT !.pc = "check",
                                       !.op = "handle_message",
                                       !.user = user_id,
                                       !.message = message]]
          \/ threads' = [threads EXCEPT ![t] =
                    [IdleThread EXCEPT !.pc = "check",
                                       !.op = "reset_user_session",
                                       !.user = user_id]]
    /\ UNCHANGED <<heap, store>>
    /\ UNCHANGED <<user_sessions, last, path, flow, flast, manager, mlast,
                   slast>>

\* `if user_id not in self.user_sessions` / `if user_id in self.user_sessions`
RaceCheck(t) ==
    LET th == threads[t]
        known == th.user \in DOMAIN store
    IN  /\ th.pc = "check"
        /\ threads' = [threads EXCEPT ![t].pc =
              IF th.op = "handle_message"
              THEN (IF known THEN "read" ELSE "create")
              ELSE (IF known THEN "l784" ELSE "done")]
        /\ UNCHANGED <<heap, store>>
        /\ UNCHANGED <<user_sessions, last, path, flow, flast, manager, mlast,
                   slast>>

\* `self.user_sessions[user_id] = LangChainConversationManager()`: a new
\* object is stored under the user's id, replacing what is there; when the
\* constructor raises, the outer `except` is next
RaceCreate(t) ==
    LET th == threads[t]
    IN  /\ th.pc = "create"
        /\ \/ /\ heap' = Append(heap, [user |-> th.user, by |-> t,
                                         session |-> NewSession])
              /\ store' = [u \in DOMAIN store \cup {th.user} |->
                              IF u = th.user THEN Len(heap) + 1 ELSE store[u]]
              /\ threads' = [threads EXCEPT ![t].pc = "read"]
           \/ /\ threads' = [threads EXCEPT ![t] = Raised(th)]
              /\ UNCHANGED <<heap, store>>
        /\ UNCHANGED <<user_sessions, last, path, flow, flast, manager, mlast,
                   slast>>

\* 435: `session = self.user_sessions[user_id]`
RaceRead(t) ==
    LET th == threads[t]
    IN  /\ th.pc = "read"
        /\ Step(t, heap, [th EXCEPT !.pc = "state", !.session = store[th.user]])

\* 436: `current_state = session.get_current_state()`, and the branch of
\* handle_message that the local current_state chooses (440, 451, 458, 468);
\* the last branch starts with `session.reset()` on the local session
RaceRun(t) ==
    LET th == threads[t]
        current_state == heap[th.session].session.current_state
        th1 == [th EXCEPT !.current_state = current_state]
    IN  /\ th.pc = "state"
        /\ Step(t, heap, IF current_state = SEARCHING
                   THEN [th1 EXCEPT !.pc = "l590"]
                   ELSE IF current_state = SHOWING_RESULTS
                   THEN [th1 EXCEPT !.pc = "l219"]
                   ELSE IF current_state = COMPLETED
                   THEN [th1 EXCEPT !.pc = "l460"]
                   ELSE [th1 EXCEPT !.pc = "l287", !.inner = th.session,
                                    !.direct = TRUE])

(* _handle_search_request and handle_search_state *)

\* 590: `session = self.user_sessions[user_id]`; then the LLM extracts the
\* name and the matcher is asked
Race590(t) ==
    LET th == threads[t]
    IN  /\ th.pc = "l590"
        /\ Step(t, heap, [th EXCEPT !.pc = "l600", !.inner = store[th.user]])

\* 600, 170: the matcher has answered; handle_search_state starts with
\* `self.search_results = search_results`.  When the matcher raised, the
\* `except` of _handle_search_request is next.
Race600(t) ==
    LET th == threads[t]
    IN  /\ th.pc = "l600"
        /\ \E matcher \in RaceMatcherOutcomes :
              IF matcher.raised
              THEN Step(t, heap, [th EXCEPT !.pc = "l620"])
              ELSE Step(t, [heap EXCEPT ![th.inner].session.search_results =
                                            matcher.results],
                        [th EXCEPT !.pc = "l172",
                                   !.search_results = matcher.results])

\* 172-195: by the number of results, `self.current_state = ERROR` (173),
\* `self.selected_player = search_results[0]` (182) or
\* `self.current_state = SHOWING_RESULTS` (195)
Race172(t) ==
    LET th == threads[t]
        n == Len(th.search_results)
    IN  /\ th.pc = "l172"
        /\ IF n = 0
           THEN Step(t, [heap EXCEPT ![th.inner].session.current_state = ERROR],
                     [th EXCEPT !.pc = "l613"])
           ELSE IF n = 1
           THEN Step(t, [heap EXCEPT ![th.inner].session.selected_player =
                                         th.search_results[1]],
                     [th EXCEPT !.pc = "l183"])
           ELSE Step(t, [heap EXCEPT ![th.inner].session.current_state =
                                         SHOWING_RESULTS],
                     [th EXCEPT !.pc = "l613"])

\* 183: `self.current_state = ConversationState.COMPLETED`
Race183(t) ==
    LET th == threads[t]
    IN  /\ th.pc = "l183"
        /\ Step(t, [heap EXCEPT ![th.inner].session.current_state = COMPLETED],
                [th EXCEPT !.pc = "l184"])

\* 184-192: the context is built from self.selected_player; when the
\* selection is gone by then, the AttributeError is caught at 618
Race184(t) ==
    LET th == threads[t]
    IN  /\ th.pc = "l184"
        /\ Step(t, heap, IF heap[th.inner].session.selected_player = NoPlayer
                   THEN [th EXCEPT !.pc = "l620"]
                   ELSE [th EXCEPT !.pc = "l613"])

\* 620: `session.current_state = ConversationState.ERROR`; the error text
\* is then awaited and returned, line 613 is not reached: the call waits for
\* its last answer, or goes on at line 444 once the text is there
Race620(t) ==
    LET th == threads[t]
    IN  /\ th.pc = "l620"
        /\ Step(t, [heap EXCEPT ![th.inner].session.current_state = ERROR],
                IF th.direct
                THEN [th EXCEPT !.pc = "respond"]
                ELSE [th EXCEPT !.pc = "l444", !.inner = 0,
                                !.search_results = << >>])

\* 613-616: the LLM has answered; `if len(search_results) == 1:
\* session.current_state = COMPLETED`, and the helper returns: to the
\* caller's return (467, 471) or to line 444
Race613(t) ==
    LET th == threads[t]
        h == IF Len(th.search_results) = 1
             THEN [heap EXCEPT ![th.inner].session.current_state = COMPLETED]
             ELSE heap
    IN  /\ th.pc = "l613"
        /\ Step(t, h, IF th.direct
                      THEN Returned(th, "answered")
                      ELSE [th EXCEPT !.pc = "l444", !.inner = 0,
                                      !.search_results = << >>])

(* handle_message, the rest of the SEARCHING branch *)

\* 444: `if len(self.user_sessions[user_id].search_results) == 1`
Race444(t) ==
    LET th == threads[t]
        s == heap[store[th.user]].session
    IN  /\ th.pc = "l444"
        /\ Step(t, heap, IF Len(s.search_results) = 1
                   THEN [th EXCEPT !.pc = "l446"]
                   ELSE Returned(th, "answered"))

\* 446: `player = self.user_sessions[user_id].search_results[0]`: an
\* IndexError when the list is empty by then
Race446(t) ==
    LET th == threads[t]
        s == heap[store[th.user]].session
    IN  /\ th.pc = "l446"
        /\ Step(t, heap, IF s.search_results = << >>
                   THEN Raised(th)
                   ELSE [th EXCEPT !.pc = "l447",
                                   !.player = s.search_results[1]])

\* 447: `self.user_sessions[user_id].selected_player = player`
Race447(t) ==
    LET th == threads[t]
    IN  /\ th.pc = "l447"
        /\ Step(t, [heap EXCEPT ![store[th.user]].session.selected_player =
                                    th.player],
                [th EXCEPT !.pc = "l448"])

\* 448: `self.user_sessions[user_id].current_state = COMPLETED`
Race448(t) ==
    LET th == threads[t]
    IN  /\ th.pc = "l448"
        /\ Step(t, [heap EXCEPT ![store[th.user]].session.current_state =
                                    COMPLETED],
                [th EXCEPT !.pc = "l632"])

(* _analyze_selected_player *)

\* 632: `session = self.user_sessions[user_id]`
Race632(t) ==
    LET th == threads[t]
    IN  /\ th.pc = "l632"
        /\ Step(t, heap, [th EXCEPT !.pc = "l635", !.inner = store[th.user]])

\* 635-637: fetch, or use the cached data
Race635(t) ==
    LET th == threads[t]
        s == heap[th.inner].session
    IN  /\ th.pc = "l635"
        /\ Step(t, heap,
                IF \/ s.player_data = NoData
                   \/ s.selected_player = NoPlayer
                   \/ s.selected_player.player_id # th.player.player_id
                THEN [th EXCEPT !.pc = "l640"]
                ELSE [th EXCEPT !.pc = "l650"])

\* 640-646: the fetch has answered; `session.player_data =
\* transfermarkt_data`, or without data the exception handled at 677
Race640(t) ==
    LET th == threads[t]
    IN  /\ th.pc = "l640"
        /\ \E fetch \in FetchOutcomes :
              IF fetch \in {"raise", "none"}
              THEN Step(t, heap, [th EXCEPT !.pc = "l679"])
              ELSE Step(t, [heap EXCEPT ![th.inner].session.player_data =
                               [player_id |-> th.player.player_id,
                                kind |-> fetch]],
                        [th EXCEPT !.pc = "l647"])

\* 647: `session.selected_player = selected_player`
Race647(t) ==
    LET th == threads[t]
    IN  /\ th.pc = "l647"
        /\ Step(t, [heap EXCEPT ![th.inner].session.selected_player =
                                    th.player],
                [th EXCEPT !.pc = "l656"])

\* 650-653: `transfermarkt_data = session.player_data`; when the data is
\* gone by then, _extract_essential_data raises on None
Race650(t) ==
    LET th == threads[t]
    IN  /\ th.pc = "l650"
        /\ Step(t, heap, IF heap[th.inner].session.player_data = NoData
                   THEN [th EXCEPT !.pc = "l679"]
                   ELSE [th EXCEPT !.pc = "l656"])

\* 656: `session.current_state = ConversationState.COMPLETED`; the report
\* is then awaited
Race656(t) ==
    LET th == threads[t]
    IN  /\ th.pc = "l656"
        /\ Step(t, [heap EXCEPT ![th.inner].session.current_state = COMPLETED],
                [th EXCEPT !.pc = "respond"])

\* 679: `session = self.user_sessions[user_id]` in the `except`; the error
\* text is then awaited
Race679(t) ==
    LET th == threads[t]
    IN  /\ th.pc = "l679"
        /\ Step(t, heap, [th EXCEPT !.pc = "respond", !.inner = store[th.user]])

\* 659, 680, 526, 621: the LLM has answered the last get_response of the call,
\* which returns the text
RaceRespond(t) ==
    LET th == threads[t]
    IN  /\ th.pc = "respond"
        /\ Step(t, heap, Returned(th, "answered"))

(* handle_selection_state and the rest of the SHOWING_RESULTS branch *)

\* 218-219, 230-232: a number is tested against len(self.search_results);
\* any other text is looked for in the names of self.search_results.
\* Without a hit the error text is awaited.
Race219(t) ==
    LET th == threads[t]
        s == heap[th.session].session
        selection == IntValue(th.message)
        i == FirstNameMatch(s.search_results, th.message)
    IN  /\ th.pc = "l219"
        /\ Step(t, heap, IF IsInt(th.message)
                   THEN (IF 1 <= selection
                            /\ selection <= Len(s.search_results)
                         THEN [th EXCEPT !.pc = "l220",
                                         !.selection = selection]
                         ELSE [th EXCEPT !.pc = "l455"])
                   ELSE (IF i # 0
                         THEN [th EXCEPT !.pc = "l233",
                                         !.player = s.search_results[i]]
                         ELSE [th EXCEPT !.pc = "l455"]))

\* 220: `self.selected_player = self.search_results[selection - 1]`: an
\* IndexError, which `except ValueError` does not catch, when the list is
\* shorter by then
Race220(t) ==
    LET th == threads[t]
        s == heap[th.session].session
    IN  /\ th.pc = "l220"
        /\ IF th.selection > Len(s.search_results)
           THEN Step(t, heap, Raised(th))
           ELSE Step(t, [heap EXCEPT ![th.session].session.selected_player =
                                         s.search_results[th.selection]],
                     [th EXCEPT !.pc = "l222", !.selection = 0])

\* 233: `self.selected_player = result`
Race233(t) ==
    LET th == threads[t]
    IN  /\ th.pc = "l233"
        /\ Step(t, [heap EXCEPT ![th.session].session.selected_player =
                                    th.player],
                [th EXCEPT !.pc = "l222", !.player = NoPlayer])

\* 222, 235: `self.current_state = ConversationState.COMPLETED`
Race222(t) ==
    LET th == threads[t]
    IN  /\ th.pc = "l222"
        /\ Step(t, [heap EXCEPT ![th.session].session.current_state =
                                    COMPLETED],
                [th EXCEPT !.pc = "l223"])

\* 223-227, 236-240: the context is built from self.selected_player: an
\* AttributeError when the selection is gone by then; the text is awaited
Race223(t) ==
    LET th == threads[t]
    IN  /\ th.pc = "l223"
        /\ Step(t, heap, IF heap[th.session].session.selected_player = NoPlayer
                   THEN Raised(th)
                   ELSE [th EXCEPT !.pc = "l455"])

\* 455: the LLM has answered; `if session.get_current_state() ==
\* ConversationState.COMPLETED and ...`: the call of get_current_state
\* reads the state
Race455(t) ==
    LET th == threads[t]
    IN  /\ th.pc = "l455"
        /\ Step(t, heap, IF heap[th.session].session.current_state = COMPLETED
                   THEN [th EXCEPT !.pc = "l455_selected"]
                   ELSE Returned(th, "answered"))

\* 455: `... and session.selected_player`, read once get_current_state has
\* returned
Race455_selected(t) ==
    LET th == threads[t]
    IN  /\ th.pc = "l455_selected"
        /\ Step(t, heap, IF heap[th.session].session.selected_player # NoPlayer
                   THEN [th EXCEPT !.pc = "l456"]
                   ELSE Returned(th, "answered"))

\* 456: session.selected_player is read again for the analysis; when it is
\* gone by then, `selected_player.player_name` raises at 630 and at 678
Race456(t) ==
    LET th == threads[t]
        s == heap[th.session].session
    IN  /\ th.pc = "l456"
        /\ Step(t, heap, IF s.selected_player = NoPlayer
                   THEN Raised(th)
                   ELSE [th EXCEPT !.pc = "l632",
                                   !.player = s.selected_player])

(* the COMPLETED branch and _handle_follow_up_question *)

\* 460: `if session.selected_player and ...`: the LLM is asked to classify
\* the message, or the local session is reset (466)
Race460(t) ==
    LET th == threads[t]
    IN  /\ th.pc = "l460"
        /\ Step(t, heap, IF heap[th.session].session.selected_player # NoPlayer
                   THEN [th EXCEPT !.pc = "classify"]
                   ELSE [th EXCEPT !.pc = "l287", !.inner = th.session,
                                   !.direct = TRUE])

\* 460-466: the LLM has classified the message.  For a follow-up,
\* `session.selected_player.player_name` is logged (461): an AttributeError
\* when the selection is gone by then.  Otherwise the local session is reset.
RaceClassify(t) ==
    LET th == threads[t]
    IN  /\ th.pc = "classify"
        /\ \E followup \in BOOLEAN :
              Step(t, heap, IF ~followup
                      THEN [th EXCEPT !.pc = "l287", !.inner = th.session,
                                      !.direct = TRUE]
                      ELSE IF heap[th.session].session.selected_player
                                 = NoPlayer
                      THEN Raised(th)
                      ELSE [th EXCEPT !.pc = "l462"])

\* 462: session.selected_player is read again for the helper; when it is
\* gone by then, `player.player_name` raises at 514 and again at 543
Race462(t) ==
    LET th == threads[t]
        s == heap[th.session].session
    IN  /\ th.pc = "l462"
        /\ Step(t, heap, IF s.selected_player = NoPlayer
                   THEN Raised(th)
                   ELSE [th EXCEPT !.pc = "l516",
                                   !.player = s.selected_player])

\* 516: `session = self.user_sessions[user_id]`
Race516(t) ==
    LET th == threads[t]
    IN  /\ th.pc = "l516"
        /\ Step(t, heap, [th EXCEPT !.pc = "l519", !.inner = store[th.user]])

\* 519-520: `if not session.player_data: raise`, which the `except` at 541
\* catches
Race519(t) ==
    LET th == threads[t]
    IN  /\ th.pc = "l519"
        /\ Step(t, heap, IF heap[th.inner].session.player_data = NoData
                         THEN [th EXCEPT !.pc = "l542"]
                         ELSE [th EXCEPT !.pc = "l523"])

\* 523: `self._extract_essential_data(session.player_data)`: raises on
\* None when the data is gone by then, which the `except` at 541 catches;
\* otherwise the answer is awaited
Race523(t) ==
    LET th == threads[t]
    IN  /\ th.pc = "l523"
        /\ Step(t, heap, IF heap[th.inner].session.player_data = NoData
                         THEN [th EXCEPT !.pc = "l542"]
                         ELSE [th EXCEPT !.pc = "respond"])

\* 541-543: the `except` of _handle_follow_up_question has logged the
\* exception (542) and returns the apology
Race542(t) ==
    LET th == threads[t]
    IN  /\ th.pc = "l542"
        /\ Step(t, heap, Returned(th, "answered"))

(* the outer `except` of handle_message *)

\* 473-475: the exception is logged (474) and the fixed text is returned
Race474(t) ==
    LET th == threads[t]
    IN  /\ th.pc = "l474"
        /\ Step(t, heap, Returned(th, handle_message_except))

(* reset_user_session and LangChainConversationManager.reset *)

\* 784: `self.user_sessions[user_id].reset()`: the session is looked up
Race784(t) ==
    LET th == threads[t]
    IN  /\ th.pc = "l784"
        /\ Step(t, heap, [th EXCEPT !.pc = "l287", !.inner = store[th.user]])

\* 287: `self.current_state = ConversationState.SEARCHING`
Race287(t) ==
    LET th == threads[t]
    IN  /\ th.pc = "l287"
        /\ Step(t, [heap EXCEPT ![th.inner].session.current_state = SEARCHING],
                [th EXCEPT !.pc = "l288"])

\* a reset that empties the candidates of every session
Race288_every_session(t) ==
    LET th == threads[t]
    IN  /\ th.pc = "l288"
        /\ Step(t, [j \in 1..Len(heap) |->
                       [heap[j] EXCEPT !.session.search_results = << >>]],
                [th EXCEPT !.pc = "l289"])

\* 288: `self.search_results = []`
Race288(t) ==
    LET th == threads[t]
    IN  /\ th.pc = "l288"
        /\ Step(t, [heap EXCEPT ![th.inner].session.search_results = << >>],
                [th EXCEPT !.pc = "l289"])

\* 289: `self.selected_player = None`
Race289(t) ==
    LET th == threads[t]
    IN  /\ th.pc = "l289"
        /\ Step(t, [heap EXCEPT ![th.inner].session.selected_player = NoPlayer],
                [th EXCEPT !.pc = "l290"])

\* 290: `self.player_data = None`; reset_user_session returns,
\* handle_message goes on to search (467, 471)
Race290(t) ==
    LET th == threads[t]
    IN  /\ th.pc = "l290"
        /\ Step(t, [heap EXCEPT ![th.inner].session.player_data = NoData],
                IF th.op = "handle_message"
                THEN [th EXCEPT !.pc = "l590", !.inner = 0]
                ELSE Returned(th, "none"))

NextRace ==
    \E t \in Threads :
        \/ RaceStart(t)
        \/ RaceCheck(t)
        \/ RaceCreate(t)
        \/ RaceRead(t)
        \/ RaceRun(t)
        \/ Race590(t)
        \/ Race600(t)
        \/ Race172(t)
        \/ Race183(t)
        \/ Race184(t)
        \/ Race620(t)
        \/ Race613(t)
        \/ Race444(t)
        \/ Race446(t)
        \/ Race447(t)
        \/ Race448(t)
        \/ Race632(t)
        \/ Race635(t)
        \/ Race640(t)
        \/ Race647(t)
        \/ Race650(t)
        \/ Race656(t)
        \/ Race679(t)
        \/ RaceRespond(t)
        \/ Race219(t)
        \/ Race220(t)
        \/ Race233(t)
        \/ Race222(t)
        \/ Race223(t)
        \/ Race455(t)
        \/ Race455_selected(t)
        \/ Race456(t)
        \/ Race460(t)
        \/ RaceClassify(t)
        \/ Race462(t)
        \/ Race516(t)
        \/ Race519(t)
        \/ Race523(t)
        \/ Race542(t)
        \/ Race474(t)
        \/ Race784(t)
        \/ Race287(t)
        \/ Race288(t)
        \/ Race289(t)
        \/ Race290(t)

SpecRace == InitRace /\ [][NextRace]_vars

(***************************************************************************)
(* One search of the WebScraper: the query and the provider's answer are   *)
(* drawn, search_players_with_selection is applied to them.                *)
(***************************************************************************)
MaxPlayers == 3

\* an entry of the provider's 'players' list
Entry(id, name, club) ==
    [id |-> id, name |-> name, playerName |-> name, club |-> club]

ProviderEntries ==
    { Entry("e1", <<"A", "n", "a">>, "c1"),
      Entry("e2", <<"a", "n", "a", " ", "b">>, "c2"),
      Entry("e3", <<"B", " ", "c">>, "c3"),
      Entry("e4", <<"B", "o">>, "c4"),
      Entry("e5", <<"a", "n", "a">>, "c5") }

ProviderAnswers ==
    {[kind |-> "raise", players |-> << >>],
     [kind |-> "other", players |-> << >>]}
    \cup {[kind |-> "players", players |-> r] :
             r \in {q \in UNION {[1..n -> ProviderEntries] : n \in 0..MaxPlayers} :
                       Distinct(q)}}

SearchNames == { <<"a", "n", "a">>, <<"A", "n", "a", " ", "B", " ">> }

InitMatcher ==
    /\ user_sessions = << >>
    /\ last = NoCall
    /\ path = [u \in Users |-> 0]
    /\ flow = NewFlow
    /\ flast = NoFlowCall
    /\ manager = NewSession
    /\ mlast = NoManagerCall
    /\ heap = << >>
    /\ store = << >>
    /\ threads = [t \in Threads |-> IdleThread]
    /\ \E api_key \in BOOLEAN, player_name \in SearchNames,
          data \in ProviderAnswers :
          slast = [NoSearchCall EXCEPT !.api_key = api_key,
                                       !.player_name = player_name,
                                       !.data = data]

SearchPlayersWithSelection ==
    /\ slast.op = "none"
    /\ slast' = [slast EXCEPT
          !.op = "search_players_with_selection",
          !.results = search_players_with_selection(
                         slast.api_key, slast.player_name, slast.data)]
    /\ UNCHANGED <<user_sessions, last, path, flow, flast, manager, mlast,
                   heap, store, threads>>

NextMatcher == SearchPlayersWithSelection

SpecMatcher == InitMatcher /\ [][NextMatcher]_vars

(***************************************************************************)
(* Properties                                                              *)
(***************************************************************************)
\* the latest call was handle_message and it had a session to work on
Handled == last.op = "handle_message" /\ last.user \in DOMAIN user_sessions

\* the session of the user of the latest handle_message call, after it
Post == user_sessions[last.user]

\* the matcher of the latest call returned exactly this many candidates
MatcherReturned(n) ==
    /\ Called(last.calls, "search")
    /\ ~last.matcher.raised
    /\ Len(last.matcher.results) = n

\* C1: in every reachable state of the agent, a session whose
\* selected_player is set is in CONFIRMING_SELECTION or COMPLETED.
C1_SelectedOnlyWhenConfirmingOrCompleted ==
    \A u \in DOMAIN user_sessions :
        user_sessions[u].selected_player # NoPlayer
            => user_sessions[u].current_state
                   \in {CONFIRMING_SELECTION, COMPLETED}

\* one user completed a selection whose data was never cached while
\* another user's search just ended in ERROR
C1_Witness ==
    \E u, v \in DOMAIN user_sessions :
        /\ u # v
        /\ user_sessions[u].current_state = COMPLETED
        /\ user_sessions[u].selected_player # NoPlayer
        /\ user_sessions[u].player_data = NoData
        /\ last = Brief("handle_message", v)
        /\ user_sessions[v].current_state = ERROR
        /\ user_sessions[v].selected_player = NoPlayer

\* C2: in a PlayerSelectionFlow driven state-respectingly, selected_player
\* is set only in CONFIRMING_SELECTION or COMPLETED, also after a 'no'.
C2_FlowSelectedOnlyWhenConfirmingOrCompleted ==
    flow.selected_player # NoPlayer
        => flow.conversation_state \in {CONFIRMING_SELECTION, COMPLETED}

\* C3 as stated: a flow in SHOWING_RESULTS has at least 2 candidates.
C3_FlowShowingHasTwo ==
    flow.conversation_state = SHOWING_RESULTS => Len(flow.search_results) >= 2

\* C3 amended: a flow in SHOWING_RESULTS has at least 1 candidate, and at
\* least 2 when process_search_results was the last call: a search that
\* returned exactly one candidate is not shown by process_search_results.
C3_FlowShowingNonEmpty ==
    flow.conversation_state = SHOWING_RESULTS
        => /\ Len(flow.search_results) >= 1
           /\ flast.op = "process_search_results"
                 => Len(flow.search_results) >= 2

\* a 'no' brought the flow back to a one-item SHOWING_RESULTS
C3_Witness ==
    /\ flast.op = "handle_confirmation"
    /\ flast.pre.conversation_state = CONFIRMING_SELECTION
    /\ flow.conversation_state = SHOWING_RESULTS
    /\ Len(flow.search_results) = 1

\* C4: in every reachable state of the agent, a session in SHOWING_RESULTS
\* holds at least 2 search results.
C4_ShowingHasTwo ==
    \A u \in DOMAIN user_sessions :
        user_sessions[u].current_state = SHOWING_RESULTS
            => Len(user_sessions[u].search_results) >= 2

\* a user is shown two candidates while another user has completed
C4_Witness ==
    \E u, v \in DOMAIN user_sessions :
        /\ u # v
        /\ last = Brief("handle_message", u)
        /\ user_sessions[u].current_state = SHOWING_RESULTS
        /\ Len(user_sessions[u].search_results) = 2
        /\ user_sessions[v].current_state = COMPLETED

\* C5 as stated: from SEARCHING, a matcher returning exactly one candidate
\* leaves the session in CONFIRMING_SELECTION with that candidate selected.
C5_SingleMatchAwaitsConfirmation ==
    (Handled /\ last.pre.current_state = SEARCHING /\ MatcherReturned(1))
        => /\ Post.current_state = CONFIRMING_SELECTION
           /\ Post.selected_player = last.matcher.results[1]

\* C6 as stated: along the example dialogue the session is in
\* SHOWING_RESULTS after the first message, in CONFIRMING_SELECTION with
\* candidate 1 after "1", and in COMPLETED with candidate 1 after "yes".
C6_HappyPathWithConfirmation ==
    \A u \in DOMAIN user_sessions :
        LET s == user_sessions[u]
        IN  /\ path[u] = 1 => s.current_state = SHOWING_RESULTS
            /\ path[u] = 2
                  => /\ s.current_state = CONFIRMING_SELECTION
                     /\ s.selected_player = s.search_results[1]
            /\ path[u] = 3
                  => /\ s.current_state = COMPLETED
                     /\ s.selected_player = s.search_results[1]

\* C7 as stated: every message received in COMPLETED resets the session and
\* runs a new search in the same call.
C7_CompletedAlwaysResets ==
    (Handled /\ last.pre.current_state = COMPLETED)
        => /\ Called(last.calls, "reset")
           /\ Called(last.calls, "search")

\* C7 amended: a message received in COMPLETED that is not classified as a
\* follow-up question resets the session and runs a new search in the same
\* call: the candidates are those of the new search, the cached data is
\* cleared and the selection is none or the single candidate of the new
\* search; a message classified as a follow-up question leaves the session
\* unchanged.
C7_CompletedResetsUnlessFollowUp ==
    (Handled /\ last.pre.current_state = COMPLETED)
        => IF last.pre.selected_player # NoPlayer /\ last.followup
           THEN /\ Post = last.pre
                /\ ~Called(last.calls, "reset")
                /\ ~Called(last.calls, "search")
           ELSE /\ Called(last.calls, "reset")
                /\ Called(last.calls, "search")
                /\ Post.player_data = NoData
                /\ Post.search_results = last.matcher.results
                /\ Post.selected_player =
                      (IF Len(last.matcher.results) = 1
                       THEN last.matcher.results[1] ELSE NoPlayer)

\* a new search from COMPLETED replaced the selected player by none
C7_Witness ==
    /\ Handled
    /\ last.pre.current_state = COMPLETED
    /\ last.pre.selected_player # NoPlayer
    /\ last.pre.player_data # NoData
    /\ Called(last.calls, "reset")
    /\ Post.selected_player = NoPlayer
    /\ Post.current_state = SHOWING_RESULTS

\* C8: a message handled as a new search in COMPLETED ends in the same
\* session as the same message and matcher result on a fresh session, and
\* fetches the report data exactly when the fresh call does.
C8_NewSearchEqualsFresh ==
    (Handled /\ last.pre.current_state = COMPLETED
             /\ Called(last.calls, "reset"))
        => \A f \in FetchOutcomes :
              LET fresh == handle_message(NewSession, last.message,
                                          last.matcher, f, FALSE, TRUE)
              IN  /\ Post = fresh.s
                  /\ Called(last.calls, "fetch") <=> Called(fresh.calls, "fetch")

\* C9: when the candidate search, the data fetch or the generation of the
\* report fails during handle_message, the session is in ERROR after the
\* call.  The search fails when the matcher raises; the fetch fails when it
\* yields its error dictionary instead of the data; the report fails when
\* the LLM call that writes it does.
C9_FailureLeavesError ==
    (Handled /\ \/ last.matcher.raised
                \/ Called(last.calls, "fetch") /\ last.fetch = "error"
                \/ Called(last.calls, "fetch") /\ last.resp = "llm_error")
        => Post.current_state = ERROR

\* C10: from SEARCHING, a matcher returning no candidate leaves the session
\* in ERROR with nothing selected, stored or cached, and fetches nothing.
C10_EmptyResultLeavesError ==
    (Handled /\ last.pre.current_state = SEARCHING /\ MatcherReturned(0))
        => /\ Post = Session(ERROR, <<>>, NoPlayer, NoData)
           /\ ~Called(last.calls, "fetch")

\* an empty result was handled from SEARCHING
C10_Witness ==
    /\ Handled
    /\ last.pre.current_state = SEARCHING
    /\ MatcherReturned(0)
    /\ Post.current_state = ERROR

\* C11: a session in ERROR is not locked out.  The next handle_message
\* resets it and runs a new search; nothing of the earlier candidates,
\* selection or cached data remains; the session is in ERROR afterwards
\* exactly when the new search failed or returned no candidate.
C11_ErrorIsNotLockedOut ==
    (Handled /\ last.pre.current_state = ERROR)
        => /\ Called(last.calls, "reset")
           /\ Called(last.calls, "search")
           /\ Post.player_data = NoData
           /\ Post.search_results =
                 (IF last.matcher.raised THEN <<>> ELSE last.matcher.results)
           /\ Post.selected_player \in
                 {NoPlayer} \cup {Post.search_results[i] :
                                    i \in 1..Len(Post.search_results)}
           /\ (Post.current_state = ERROR)
                 <=> (last.matcher.raised \/ last.matcher.results = <<>>)

\* a session in ERROR got a message, the matcher returned candidates and the
\* session left ERROR in that call
C11_Witness ==
    /\ Handled
    /\ last.pre.current_state = ERROR
    /\ ~last.matcher.raised
    /\ Len(last.matcher.results) >= 1
    /\ Post.current_state # ERROR

\* the texts handle_message returns: the answers of the conversation model,
\* the fixed texts of the failure branches and the apology of the outer
\* `except`; "raise" (an exception reaching the caller) is not one of them
ResponseTexts ==
    {"not_found", "selected", "results_list", "invalid_selection",
     "search_error", "analysis_error", "report", "followup_error",
     "followup_answer", "llm_error", "unexpected_error"}

\* C12: every handle_message call returns one response text, whatever the
\* state and whatever the matcher, the classifier, the fetch, the language
\* model or the session constructor did; no exception reaches the caller.
C12_AlwaysOneResponse ==
    last.op = "handle_message" => last.resp \in ResponseTexts

\* calls answered although a collaborator failed: the session constructor
\* raised, or the matcher raised and the language model failed as well
C12_Witness ==
    /\ last.op = "handle_message"
    /\ \/ last.user \notin DOMAIN user_sessions
       \/ last.matcher.raised /\ last.resp = "llm_error"
    /\ last.resp \in ResponseTexts

\* the input is an integer outside 1..Len(results)
OutOfRange(user_input, results) ==
    /\ IsInt(user_input)
    /\ (IntValue(user_input) < 1 \/ IntValue(user_input) > Len(results))

\* C13: in SHOWING_RESULTS an integer outside 1..len(candidates) changes
\* neither the state, the candidates nor the selection, in
\* PlayerSelectionFlow.handle_user_selection (whose message names the bounds
\* 1 and len(candidates)), in handle_selection_state and in
\* SoccerAgent.handle_message applied to the same session.
C13_OutOfRangeChangesNothing ==
    /\ (/\ flast.op = "handle_user_selection"
         /\ flast.pre.conversation_state = SHOWING_RESULTS
         /\ OutOfRange(flast.input, flast.pre.search_results))
        => /\ flow = flast.pre
           /\ flast.resp = Text("range_error", 1,
                                Len(flast.pre.search_results))
    /\ (/\ mlast.op = "handle_selection_state"
         /\ mlast.pre.current_state = SHOWING_RESULTS
         /\ OutOfRange(mlast.input, mlast.pre.search_results))
        => /\ manager = mlast.pre
           /\ \A fetch \in FetchOutcomes, llm \in BOOLEAN :
                 handle_message(mlast.pre, mlast.input, NoMatcher, fetch,
                                FALSE, llm).s = mlast.pre

\* both classes, showing two candidates, were given a number above the range
C13_Witness ==
    /\ flast.op = "handle_user_selection"
    /\ flast.pre.conversation_state = SHOWING_RESULTS
    /\ Len(flast.pre.search_results) = 2
    /\ IsInt(flast.input) /\ IntValue(flast.input) > 2
    /\ flow.conversation_state = SHOWING_RESULTS
    /\ mlast.op = "handle_selection_state"
    /\ mlast.pre.current_state = SHOWING_RESULTS
    /\ mlast.input = flast.input
    /\ manager.current_state = SHOWING_RESULTS

\* C14: PlayerSelectionFlow.process_search_results classifies by the number
\* of results: none gives ERROR and selects nothing, one gives
\* CONFIRMING_SELECTION with that result selected, two or more give
\* SHOWING_RESULTS and select nothing; search_results is the given list.
C14_ProcessClassifiesByCount ==
    flast.op = "process_search_results"
        => /\ flow.search_results = flast.results
           /\ Len(flast.results) = 0
                 => /\ flow.conversation_state = ERROR
                    /\ flow.selected_player = flast.pre.selected_player
           /\ Len(flast.results) = 1
                 => /\ flow.conversation_state = CONFIRMING_SELECTION
                    /\ flow.selected_player = flast.results[1]
           /\ Len(flast.results) >= 2
                 => /\ flow.conversation_state = SHOWING_RESULTS
                    /\ flow.selected_player = flast.pre.selected_player

\* a flow with nothing selected was given exactly one result
C14_Witness ==
    /\ flast.op = "process_search_results"
    /\ Len(flast.results) = 1
    /\ flast.pre.selected_player = NoPlayer
    /\ flow.conversation_state = CONFIRMING_SELECTION
    /\ flow.selected_player = flast.results[1]

\* the input is an integer inside 1..Len(results)
InRange(user_input, results) ==
    /\ IsInt(user_input)
    /\ 1 <= IntValue(user_input)
    /\ IntValue(user_input) <= Len(results)

\* C15: in SHOWING_RESULTS an integer n with 1 <= n <= len(candidates) makes
\* PlayerSelectionFlow.handle_user_selection select candidates[n-1] and move
\* to CONFIRMING_SELECTION; the candidate list is unchanged.
C15_NumberSelectsThatCandidate ==
    (/\ flast.op = "handle_user_selection"
     /\ flast.pre.conversation_state = SHOWING_RESULTS
     /\ InRange(flast.input, flast.pre.search_results))
        => /\ flow.selected_player =
                 flast.pre.search_results[IntValue(flast.input)]
           /\ flow.conversation_state = CONFIRMING_SELECTION
           /\ flow.search_results = flast.pre.search_results

\* the second of two candidates was chosen by its number
C15_Witness ==
    /\ flast.op = "handle_user_selection"
    /\ flast.pre.conversation_state = SHOWING_RESULTS
    /\ Len(flast.pre.search_results) = 2
    /\ flast.pre.selected_player = NoPlayer
    /\ InRange(flast.input, flast.pre.search_results)
    /\ IntValue(flast.input) = 2
    /\ flow.selected_player = flast.pre.search_results[2]
    /\ flow.conversation_state = CONFIRMING_SELECTION

\* the positions of the candidates whose name contains the trimmed input,
\* compared without case
NameHits(user_input, results) ==
    {i \in 1..Len(results) :
        Contains(Strip(Lower(user_input)), Lower(results[i].player_name))}

\* C16: in SHOWING_RESULTS a non-integer input makes handle_user_selection
\* select the first candidate, in list order, whose name contains the trimmed
\* input without regard to case, and move to CONFIRMING_SELECTION, also when
\* a later candidate matches too; with no match, state, candidates and
\* selection are unchanged.  handle_selection_state picks the same candidate.
C16_FirstNameMatchWins ==
    /\ (/\ flast.op = "handle_user_selection"
         /\ flast.pre.conversation_state = SHOWING_RESULTS
         /\ ~IsInt(flast.input))
        => LET hits == NameHits(flast.input, flast.pre.search_results)
           IN  IF hits = {}
               THEN flow = flast.pre
               ELSE /\ \E i \in hits :
                         /\ \A j \in hits : i <= j
                         /\ flow.selected_player = flast.pre.search_results[i]
                    /\ flow.conversation_state = CONFIRMING_SELECTION
                    /\ flow.search_results = flast.pre.search_results
    /\ (/\ mlast.op = "handle_selection_state"
         /\ mlast.pre.current_state = SHOWING_RESULTS
         /\ ~IsInt(mlast.input))
        => LET hits == NameHits(mlast.input, mlast.pre.search_results)
           IN  IF hits = {}
               THEN manager = mlast.pre
               ELSE /\ \E i \in hits :
                         /\ \A j \in hits : i <= j
                         /\ manager.selected_player =
                               mlast.pre.search_results[i]
                    /\ manager.search_results = mlast.pre.search_results

\* "aN" is part of both names of the list <<"Ana B", "Ana">>, and closer to
\* the second: the first was selected
C16_Witness ==
    /\ flast.op = "handle_user_selection"
    /\ flast.pre.conversation_state = SHOWING_RESULTS
    /\ flast.pre.search_results = <<P1, P2>>
    /\ flast.pre.selected_player = NoPlayer
    /\ flast.input = <<"a", "N">>
    /\ NameHits(flast.input, flast.pre.search_results) = {1, 2}
    /\ flow.selected_player = P1
    /\ flow.conversation_state = CONFIRMING_SELECTION

\* the answer, trimmed and lowered, is one of the negative tokens
IsNegative(user_input) == Strip(Lower(user_input)) \in NegativeTokens

\* the answer, trimmed and lowered, is one of the affirmative tokens
IsAffirmative(user_input) == Strip(Lower(user_input)) \in AffirmativeTokens

\* C17: in CONFIRMING_SELECTION a negative token, in any case and with any
\* surrounding whitespace, makes handle_confirmation (and
\* handle_confirmation_state) move to SHOWING_RESULTS and return no confirmed
\* player; the candidate list is exactly as before.
C17_NegativeReturnsToList ==
    /\ (/\ flast.op = "handle_confirmation"
         /\ flast.pre.conversation_state = CONFIRMING_SELECTION
         /\ IsNegative(flast.input))
        => /\ flow.conversation_state = SHOWING_RESULTS
           /\ flast.confirmed = NoPlayer
           /\ flow.search_results = flast.pre.search_results
    /\ (/\ mlast.op = "handle_confirmation_state"
         /\ mlast.pre.current_state = CONFIRMING_SELECTION
         /\ IsNegative(mlast.input))
        => /\ manager.current_state = SHOWING_RESULTS
           /\ mlast.confirmed = NoPlayer
           /\ manager.search_results = mlast.pre.search_results

\* " NO " was answered to the confirmation of one of two candidates
C17_Witness ==
    /\ flast.op = "handle_confirmation"
    /\ flast.pre.conversation_state = CONFIRMING_SELECTION
    /\ Len(flast.pre.search_results) = 2
    /\ flast.pre.selected_player = flast.pre.search_results[1]
    /\ flast.input = <<" ", "N", "O", " ">>
    /\ flow.conversation_state = SHOWING_RESULTS
    /\ mlast.op = "handle_confirmation_state"
    /\ mlast.pre.current_state = CONFIRMING_SELECTION
    /\ manager.current_state = SHOWING_RESULTS

\* C19: in CONFIRMING_SELECTION an answer that is neither an affirmative nor
\* a negative token leaves state, candidates and selection unchanged and
\* returns no confirmed player, in both confirmation handlers.
C19_OtherAnswerChangesNothing ==
    /\ (/\ flast.op = "handle_confirmation"
         /\ flast.pre.conversation_state = CONFIRMING_SELECTION
         /\ ~IsAffirmative(flast.input) /\ ~IsNegative(flast.input))
        => /\ flow = flast.pre
           /\ flast.confirmed = NoPlayer
    /\ (/\ mlast.op = "handle_confirmation_state"
         /\ mlast.pre.current_state = CONFIRMING_SELECTION
         /\ ~IsAffirmative(mlast.input) /\ ~IsNegative(mlast.input))
        => /\ manager = mlast.pre
           /\ mlast.confirmed = NoPlayer

\* "maybe" was answered to the confirmation of a selected candidate
C19_Witness ==
    /\ flast.op = "handle_confirmation"
    /\ flast.pre.conversation_state = CONFIRMING_SELECTION
    /\ flast.pre.selected_player # NoPlayer
    /\ flast.input = <<"m", "a", "y", "b", "e">>
    /\ flow.conversation_state = CONFIRMING_SELECTION
    /\ mlast.op = "handle_confirmation_state"
    /\ mlast.pre.current_state = CONFIRMING_SELECTION
    /\ mlast.pre.selected_player # NoPlayer
    /\ manager.current_state = CONFIRMING_SELECTION

\* C20: reset_user_session is idempotent.  A call for a user with a session
\* leaves that session in SEARCHING with no candidates, no selection and no
\* cached data; a second call in a row changes nothing; a call for a user
\* without a session creates no entry.
C20_ResetIsIdempotent ==
    [][last'.op = "reset_user_session"
        => /\ last'.user \notin DOMAIN user_sessions
                 => user_sessions' = user_sessions
           /\ last'.user \in DOMAIN user_sessions
                 => /\ DOMAIN user_sessions' = DOMAIN user_sessions
                    /\ user_sessions'[last'.user] =
                          Session(SEARCHING, <<>>, NoPlayer, NoData)
           /\ (last.op = "reset_user_session" /\ last.user = last'.user)
                 => user_sessions' = user_sessions]_vars

\* the session of a user was reset when it was already in the reset state:
\* only a reset leaves a session in SEARCHING, so this is a second reset
C20_Witness ==
    /\ last.op = "reset_user_session"
    /\ last.user \in DOMAIN user_sessions
    /\ last.pre = Session(SEARCHING, <<>>, NoPlayer, NoData)
    /\ user_sessions[last.user] = last.pre

\* C21: get_user_state returns SEARCHING for a user without a session and
\* that session's current state otherwise; the call creates no session and
\* changes no session.
C21_GetUserStateReadsOnly ==
    [][last'.op = "get_user_state"
        => /\ user_sessions' = user_sessions
           /\ last'.resp =
                 (IF last'.user \in DOMAIN user_sessions
                  THEN user_sessions[last'.user].current_state
                  ELSE SEARCHING)]_vars

\* the state of a user who never sent a message was asked for
C21_Witness ==
    /\ last.op = "get_user_state"
    /\ last.user \notin DOMAIN user_sessions
    /\ last.resp = SEARCHING

\* C22: sessions are isolated per user.  No step of a handle_message or
\* reset_user_session call for one user, however it interleaves with a call
\* for another user and whether it succeeds or fails, changes the other
\* user's entry in the store or any session object of the other user.
C22_SessionsAreIsolated ==
    [][\A t \in Threads :
          threads'[t] # threads[t]
            => \A u \in Users2 \ {threads'[t].user} :
                  /\ (u \in DOMAIN store') <=> (u \in DOMAIN store)
                  /\ u \in DOMAIN store => store'[u] = store[u]
                  /\ \A i \in 1..Len(heap) :
                        heap[i].user = u => heap'[i] = heap[i]]_vars

\* two users were served by two threads; the call for one of them failed
\* and left that user's session in ERROR, the other user's session shows
\* its candidates
C22_Witness ==
    /\ threads[1].pc = "done" /\ threads[2].pc = "done"
    /\ threads[1].user # threads[2].user
    /\ threads[1].op = "handle_message"
    /\ threads[2].op = "handle_message"
    /\ DOMAIN store = Users2
    /\ heap[store[threads[1].user]].session.current_state = ERROR
    /\ heap[store[threads[2].user]].session.current_state = SHOWING_RESULTS

\* the thread is between line 435 of handle_message, where it has read its
\* session, and its return, the `except` blocks included
InBranch(t) ==
    /\ threads[t].op = "handle_message"
    /\ threads[t].session # 0
    /\ threads[t].pc # "done"

\* the sessions two handle_message calls leave behind when the second
\* starts after the first has returned, for a user without a session,
\* whatever the matcher, the fetch and the LLM answer to each call
Sequential(first, second) ==
    LET after(s, message) ==
            {handle_message(s, message, matcher, fetch, followup, llm).s :
                matcher \in RaceMatcherOutcomes, fetch \in FetchOutcomes,
                followup \in BOOLEAN, llm \in BOOLEAN}
    IN  UNION {after(s, second) : s \in after(NewSession, first)}

\* C23: overlapping handle_message calls for one user are serialised: one
\* session object is ever constructed for a user, two calls in flight never
\* hold the same session between reading it and returning, and after two
\* first messages of a user the stored session is one that the two
\* messages leave behind when handled one after the other, in some order.
C23_SameUserCallsAreSerialised ==
    /\ \A u \in Users2 :
          Cardinality({i \in 1..Len(heap) : heap[i].user = u}) <= 1
    /\ ~(/\ InBranch(1) /\ InBranch(2)
          /\ threads[1].session = threads[2].session)
    /\ (/\ \A t \in Threads : /\ threads[t].pc = "done"
                                /\ threads[t].op = "handle_message"
                                /\ threads[t].resp = "answered"
         /\ threads[1].user = threads[2].user
         /\ heap[store[threads[1].user]].by # 0)
        => heap[store[threads[1].user]].session
              \in Sequential(threads[1].message, threads[2].message)
                   \cup Sequential(threads[2].message, threads[1].message)

\* C24: the cached report data follows the selection.  In every reachable
\* session, player_data that is set was fetched for the player_id of the
\* selected player; a report or a follow-up answer is only produced with the
\* data of the current selection, so a changed selection never meets the
\* data of the previous one.
C24_CacheFollowsSelection ==
    /\ \A u \in DOMAIN user_sessions :
          LET s == user_sessions[u]
          IN  s.player_data # NoData
                => /\ s.selected_player # NoPlayer
                   /\ s.player_data.player_id = s.selected_player.player_id
    /\ (Handled /\ last.resp \in {"report", "followup_answer"})
          => Post.player_data.player_id = Post.selected_player.player_id

\* a session holding the report data of one player got a message that
\* selected another player: the data was dropped
C24_Witness ==
    /\ Handled
    /\ last.pre.player_data # NoData
    /\ last.pre.selected_player # NoPlayer
    /\ Post.selected_player # NoPlayer
    /\ Post.selected_player # last.pre.selected_player
    /\ Post.player_data = NoData

\* C25: in every state reachable by handle_message and reset_user_session
\* calls, a session's player_data is set only if the session is COMPLETED
\* and a player is selected.
C25_DataOnlyWhenCompleted ==
    \A u \in DOMAIN user_sessions :
        LET s == user_sessions[u]
        IN  s.player_data # NoData
              => /\ s.current_state = COMPLETED
                 /\ s.selected_player # NoPlayer

\* one user's session holds report data while the other user's session,
\* reset after a report, holds none
C25_Witness ==
    /\ DOMAIN user_sessions = Users2
    /\ user_sessions["u1"].player_data # NoData
    /\ user_sessions["u1"].current_state = COMPLETED
    /\ user_sessions["u2"].player_data = NoData
    /\ user_sessions["u2"].current_state = SEARCHING

\* the place of the player with this id in the provider's answer
ProviderPosition(id) ==
    CHOOSE k \in 1..Len(slast.data.players) : slast.data.players[k].id = id

\* C26: the matcher returns the provider's players in non-increasing order
\* of confidence_score, and players of equal score in the provider's order,
\* for every answer of the provider; none is lost or added.
C26_MatcherSortIsStable ==
    slast.op = "search_players_with_selection"
        => LET r == slast.results
           IN  /\ \A i \in 1..(Len(r) - 1) :
                     r[i].confidence_score >= r[i + 1].confidence_score
               /\ \A i, j \in 1..Len(r) :
                     (i < j /\ r[i].confidence_score = r[j].confidence_score)
                       => ProviderPosition(r[i].player_id)
                            < ProviderPosition(r[j].player_id)
               /\ (slast.api_key /\ slast.data.kind = "players")
                     => /\ Len(r) = Len(slast.data.players)
                        /\ \A k \in 1..Len(slast.data.players) :
                              \E i \in 1..Len(r) :
                                 r[i].player_id = slast.data.players[k].id

\* the provider's first and third player have the highest score, its second
\* a lower one: the first and the third are returned first, in that order
C26_Witness ==
    /\ slast.op = "search_players_with_selection"
    /\ Len(slast.results) = 3
    /\ slast.results[1].confidence_score = slast.results[2].confidence_score
    /\ slast.results[2].confidence_score > slast.results[3].confidence_score
    /\ slast.results[1].player_id = slast.data.players[1].id
    /\ slast.results[2].player_id = slast.data.players[3].id
    /\ slast.results[3].player_id = slast.data.players[2].id

\* C27: a message classified as a follow-up question, received in COMPLETED
\* with a player selected, leaves state, candidates, selection and cached
\* data unchanged and calls neither the matcher nor the data fetch; without
\* cached data the answer is the fixed apology.
C27_FollowUpChangesNothing ==
    (/\ Handled
     /\ last.pre.current_state = COMPLETED
     /\ last.pre.selected_player # NoPlayer
     /\ last.followup)
        => /\ Post = last.pre
           /\ ~Called(last.calls, "search")
           /\ ~Called(last.calls, "fetch")
           /\ ~Called(last.calls, "reset")
           /\ last.resp \in (IF last.pre.player_data = NoData
                              THEN {"followup_error"}
                              ELSE {"followup_answer", "llm_error"})

\* a follow-up question was answered from the data stored with the report
C27_Witness ==
    /\ Handled
    /\ last.pre.current_state = COMPLETED
    /\ last.pre.selected_player # NoPlayer
    /\ last.pre.player_data # NoData
    /\ last.followup
    /\ last.resp = "followup_answer"
    /\ Post = last.pre

\* C28: no sequence of handle_message and reset_user_session calls puts a
\* session in CONFIRMING_SELECTION; a call that leaves a player selected
\* (single match, number or name fragment) leaves the session COMPLETED.
C28_NeverConfirming ==
    /\ \A u \in DOMAIN user_sessions :
          user_sessions[u].current_state # CONFIRMING_SELECTION
    /\ (Handled /\ Post.selected_player # NoPlayer)
          => Post.current_state = COMPLETED

\* a candidate was chosen by a fragment of its name and the session went
\* from SHOWING_RESULTS to COMPLETED in that call
C28_Witness ==
    /\ Handled
    /\ last.pre.current_state = SHOWING_RESULTS
    /\ ~IsInt(last.message)
    /\ last.pre.selected_player = NoPlayer
    /\ Post.selected_player # NoPlayer
    /\ Post.current_state = COMPLETED

\* handle_message called _analyze_selected_player: for the single match of
\* a search made in SEARCHING, or for the candidate chosen in SHOWING_RESULTS
Analyzed ==
    /\ Handled
    /\ \/ last.pre.current_state = SEARCHING /\ MatcherReturned(1)
       \/ /\ last.pre.current_state = SHOWING_RESULTS
          /\ Post.current_state = COMPLETED

\* C29: whenever handle_message calls _analyze_selected_player the session's
\* player_data is null: the data is fetched for every report and the branch
\* that uses cached data is never taken.
C29_AnalysisAlwaysFetches ==
    /\ Handled => ~Called(last.calls, "cached")
    /\ Analyzed => /\ last.pre.player_data = NoData
                   /\ Called(last.calls, "fetch")

\* a reset session was given a message with a single match: the player was
\* analysed and the data fetched
C29_Witness ==
    /\ Analyzed
    /\ last.pre.current_state = SEARCHING
    /\ last.created = FALSE
    /\ Called(last.calls, "fetch")
    /\ Post.player_data # NoData

\* C30: in SHOWING_RESULTS with at least one candidate, an input that is
\* empty or only whitespace is a name fragment that every name contains:
\* handle_user_selection and handle_selection_state select candidates[0]
\* and leave SHOWING_RESULTS (for CONFIRMING_SELECTION and COMPLETED).
C30_BlankInputSelectsFirst ==
    /\ (/\ flast.op = "handle_user_selection"
         /\ flast.pre.conversation_state = SHOWING_RESULTS
         /\ flast.pre.search_results # <<>>
         /\ Strip(flast.input) = <<>>)
        => /\ flow.selected_player = flast.pre.search_results[1]
           /\ flow.conversation_state = CONFIRMING_SELECTION
           /\ flast.resp.kind = "confirmation"
    /\ (/\ mlast.op = "handle_selection_state"
         /\ mlast.pre.current_state = SHOWING_RESULTS
         /\ mlast.pre.search_results # <<>>
         /\ Strip(mlast.input) = <<>>)
        => /\ manager.selected_player = mlast.pre.search_results[1]
           /\ manager.current_state = COMPLETED

\* a single blank was the answer to a list of two candidates, none selected
C30_Witness ==
    /\ flast.op = "handle_user_selection"
    /\ flast.pre.conversation_state = SHOWING_RESULTS
    /\ Len(flast.pre.search_results) = 2
    /\ flast.pre.selected_player = NoPlayer
    /\ flast.input = <<" ">>
    /\ flow.selected_player = flast.pre.search_results[1]
    /\ mlast.op = "handle_selection_state"
    /\ mlast.pre.current_state = SHOWING_RESULTS
    /\ manager.selected_player = mlast.pre.search_results[1]
    /\ manager.current_state = COMPLETED

====
